---- MODULE Spec2Model ----
(***************************************************************************)
(* Market-data service of the trading signal engine: the job handlers      *)
(* dailyIngest, computeIndicators and weeklySectorRank over the tables     *)
(* price_bars_daily, indicators_daily and sector_metrics_weekly, and the   *)
(* pure functions they are built from.                                     *)
(*                                                                         *)
(* Numbers.  The service computes in IEEE doubles.  Here every number is   *)
(* an integer: prices and volumes are whole units, and a computed ratio    *)
(* (EMA, ATR%, RS, z-score, slope, return, breadth) is the quotient        *)
(* scaled by Scale and rounded down.  The composite sector score uses the  *)
(* weights 0.5, 0.3, 0.2 in tenths.                                        *)
(***************************************************************************)
EXTENDS Integers, Sequences, FiniteSets, TLC

VARIABLES
    rankIn,     \* SpecRank: the metrics handed to rankSectorMetrics
    rankOut,    \* SpecRank: the list it returned
    rankPc,     \* SpecRank: "input" before the call, "ranked" after it
    indCase,    \* SpecInd: the bars and benchmark closes handed to computeIndicatorsFromBars
    indOut,     \* SpecInd: the row it returned, Null for none
    indPc,      \* SpecInd: "input" before the call, "returned" after it
    price_bars_daily,       \* table price_bars_daily, key (symbol, date)
    indicators_daily,       \* table indicators_daily, key (symbol, date)
    sector_metrics_weekly,  \* table sector_metrics_weekly, key (sector_id, week_end_date)
    sectors_enabled,        \* ids of the rows of table sectors with enabled = true
    feed,                   \* which data the Stooq endpoint serves at the moment
    response,               \* what the last job returned
    steps,                  \* jobs run and changes made around them so far
    conc,           \* SpecConc: the job and payload both invocations were called with
    invocations,    \* SpecConc: where each of the two invocations is, and its locals
    requests,       \* SpecApi: the POST requests received, in order of arrival
    clock,          \* SpecApi: requests received and responses sent so far
    fnIn,       \* SpecFn: the function called and its arguments
    fnOut,      \* SpecFn: what it returned
    fnPc,       \* SpecFn: "input" before the call, "returned" after it
    sched,      \* SpecSched: the scheduler process: its arguments and locals
    sent,       \* SpecSched: the job requests sent so far, with their outcomes
    paper_positions,    \* SpecEngine: table paper_positions, key symbol
    signals,            \* SpecEngine: table signals, in order of insertion
    engine      \* SpecEngine: the settings of the engine, its alerts and its last evaluation

rankVars == <<rankIn, rankOut, rankPc>>
indVars == <<indCase, indOut, indPc>>
tableVars == <<price_bars_daily, indicators_daily, sector_metrics_weekly>>
dbVars == <<price_bars_daily, indicators_daily, sector_metrics_weekly, sectors_enabled,
            feed, response, steps>>
concVars == <<conc, invocations>>
apiVars == <<requests, clock>>
fnVars == <<fnIn, fnOut, fnPc>>
schedVars == <<sched, sent>>
engVars == <<paper_positions, signals, engine>>
vars == <<rankIn, rankOut, rankPc, indCase, indOut, indPc,
          price_bars_daily, indicators_daily, sector_metrics_weekly, sectors_enabled,
          feed, response, steps, conc, invocations, requests, clock,
          fnIn, fnOut, fnPc, sched, sent, paper_positions, signals, engine>>

(***************************************************************************)
(* Bounds of the model                                                     *)
(***************************************************************************)
MaxSectors == 3          \* longest metric list handed to rankSectorMetrics
MaxBars == 201           \* longest bar history handed to computeIndicatorsFromBars
MaxSteps == 3            \* jobs and changes around them in one run of Spec
Scale == 100             \* a computed ratio is kept in 1/Scale units

\* windows and periods passed by computeIndicatorsFromBars
Ema21Period == 21
Ema50Period == 50
Ema200Period == 200
AtrPeriod == 14
SlopeWindow == 10
ZScoreWindow == 60

\* values a metric field takes in the inputs of SpecRank
RelStrengthValues == {-1, 1}
BreadthValues == {0, 1}
DollarVolZValues == {-1, 4}

\* history: the days 1..HistLen were ingested before the model starts, the
\* jobs of the model run for the two days after it
HistLen == Ema200Period - 1
LastDate == HistLen + 2

Range(s) == {s[i] : i \in DOMAIN s}

(***************************************************************************)
(* rankSectorMetrics                                                       *)
(***************************************************************************)
\* the weights w1, w2, w3 of the composite score, in tenths
W1 == 5
W2 == 3
W3 == 2

SectorIds == <<"semis", "biotech", "software", "cyber">>

\* score of one metric, as computed inside rankSectorMetrics' map()
Score(metric) ==
    W1 * metric.rel_strength_5d
    + W2 * metric.breadth_above_ema21
    + W3 * metric.etf_dollar_vol_z

\* mutant: ascending comparator
CompareDesc_ascending(a, b) == a.score - b.score

\* the comparator (a, b) => b.score - a.score
CompareDesc(a, b) == b.score - a.score

\* Array.prototype.sort is stable: an element is placed behind every element
\* it does not have to precede (comparator result >= 0 keeps input order).
RECURSIVE InsertSorted(_, _)
InsertSorted(sorted, item) ==
    IF sorted = <<>> THEN <<item>>
    ELSE IF CompareDesc(Head(sorted), item) > 0
         THEN <<item>> \o sorted
         ELSE <<Head(sorted)>> \o InsertSorted(Tail(sorted), item)

RECURSIVE SortScored(_)
SortScored(items) ==
    IF items = <<>> THEN <<>>
    ELSE InsertSorted(SortScored(SubSeq(items, 1, Len(items) - 1)), items[Len(items)])

\* mutant: competition ranking, sectors with equal scores share a rank
RankAt_sharedOnTie(scored, index) ==
    1 + Cardinality({j \in 1..Len(scored) : scored[j].score > scored[index + 1].score})

\* item.metric.rank = index + 1, index being the 0-based position in scored
RankAt(scored, index) == index + 1

\* mutant: streaming rank, each metric is ranked when it is computed, in a
\* cohort of its own
rankSectorMetrics_streaming(metrics) ==
    [i \in 1..Len(metrics) |-> [metrics[i] EXCEPT !.rank = 1]]

rankSectorMetrics(metrics) ==
    LET scored == SortScored([i \in 1..Len(metrics) |->
                                [metric |-> metrics[i], score |-> Score(metrics[i])]])
    IN  [i \in 1..Len(scored) |-> [scored[i].metric EXCEPT !.rank = RankAt(scored, i - 1)]]

(***************************************************************************)
(* Numbers and optional values                                             *)
(***************************************************************************)
\* a function that returns "number | null" returns <<>> for null, <<v>> for v
Null == <<>>
Some(v) == <<v>>
IsNull(x) == x = <<>>
Val(x) == x[1]

Abs(x) == IF x < 0 THEN -x ELSE x
Max2(a, b) == IF a >= b THEN a ELSE b
Min2(a, b) == IF a <= b THEN a ELSE b

\* values[from] + ... + values[to] (addition of integers is associative, so
\* the two halves are summed apart)
RECURSIVE SumRange(_, _, _)
SumRange(values, from, to) ==
    IF from > to THEN 0
    ELSE IF from = to THEN values[from]
    ELSE LET mid == (from + to) \div 2
         IN  SumRange(values, from, mid) + SumRange(values, mid + 1, to)

\* slice(-count): the last count elements (all of them when there are fewer)
LastN(seq, count) ==
    IF Len(seq) <= count THEN seq ELSE SubSeq(seq, Len(seq) - count + 1, Len(seq))

\* Math.sqrt on the integer grid: the largest r with r * r <= n
RECURSIVE SqrtSearch(_, _, _)
SqrtSearch(n, lo, hi) ==
    IF lo >= hi THEN lo
    ELSE LET mid == (lo + hi + 1) \div 2
         IN  IF mid <= n \div mid THEN SqrtSearch(n, mid, hi) ELSE SqrtSearch(n, lo, mid - 1)

Sqrt(n) == SqrtSearch(n, 0, n)

(***************************************************************************)
(* Indicator functions                                                     *)
(***************************************************************************)
\* mutant: the smoothing factor is 2 / period
EmaStep_factorOverPeriod(value, period, ema) ==
    (value * Scale * 2 + ema * (period - 2)) \div period

\* one pass of the loop body "ema = values[i] * k + ema * (1 - k)" with
\* k = 2 / (period + 1)
EmaStep(value, period, ema) ==
    (value * Scale * 2 + ema * (period - 1)) \div (period + 1)

\* the loop body applied to values[from], ..., values[to] in this order: the
\* passes up to mid are finished (their ema is a number) before the pass mid + 1
\* starts
RECURSIVE EmaSteps(_, _, _, _, _)
EmaSteps(values, period, ema, from, to) ==
    IF from > to THEN ema
    ELSE IF from = to THEN EmaStep(values[from], period, ema)
    ELSE LET mid == (from + to) \div 2
             emaAtMid == EmaSteps(values, period, ema, from, mid)
         IN  CASE emaAtMid \in Int -> EmaSteps(values, period, emaAtMid, mid + 1, to)

\* seed = average of the first period values, then the loop over the rest
EmaFold(values, period, last) ==
    EmaSteps(values, period, (SumRange(values, 1, period) * Scale) \div period,
             period + 1, last)

\* mutant: no minimum length, the seed is the average of what there is
computeEma_noMinimum(values, period) ==
    IF Len(values) = 0 THEN Null
    ELSE IF Len(values) < period
         THEN Some((SumRange(values, 1, Len(values)) * Scale) \div Len(values))
         ELSE Some(EmaFold(values, period, Len(values)))

computeEma(values, period) ==
    IF Len(values) < period THEN Null
    ELSE Some(EmaFold(values, period, Len(values)))

\* true range of bars[i] against bars[i - 1]
TrueRange(current, prev) ==
    Max2(current.high - current.low,
         Max2(Abs(current.high - prev.close), Abs(current.low - prev.close)))

computeAtrPct(bars, period) ==
    IF Len(bars) < period + 1 THEN Null
    ELSE LET trs == [i \in 1..Len(bars) - 1 |-> TrueRange(bars[i + 1], bars[i])]
         IN  IF Len(trs) < period THEN Null
             ELSE LET recent == LastN(trs, period)
                      lastClose == bars[Len(bars)].close
                  IN  IF lastClose = 0 THEN Null
                      ELSE Some((SumRange(recent, 1, period) * Scale) \div (period * lastClose))

\* (latest - mean) / std with mean = sum / n and std = sqrt(sum((v - mean)^2) / n),
\* that is (n * latest - sum) / sqrt(n * sum(v^2) - sum^2); std = 0 exactly when
\* the radicand is 0
computeZScore(values) ==
    IF Len(values) < 2 THEN Null
    ELSE LET n == Len(values)
             sum == SumRange(values, 1, n)
             sumSq == SumRange([i \in 1..n |-> values[i] * values[i]], 1, n)
             radicand == n * sumSq - sum * sum
             latest == values[n]
         IN  IF radicand = 0 THEN Some(0)
             ELSE Some(((n * latest - sum) * Scale) \div Sqrt(radicand))

\* the slip "sumXX += i" for "sumXX += i * i"
computeSlope_sumXXLinear(values) ==
    IF Len(values) < 2 THEN Null
    ELSE LET n == Len(values)
             sumX == SumRange([i \in 1..n |-> i - 1], 1, n)
             sumY == SumRange(values, 1, n)
             sumXY == SumRange([i \in 1..n |-> (i - 1) * values[i]], 1, n)
             denominator == n * sumX - sumX * sumX
         IN  IF denominator = 0 THEN Null
             ELSE Some((n * sumXY - sumX * sumY) \div denominator)

computeSlope(values) ==
    IF Len(values) < 2 THEN Null
    ELSE LET n == Len(values)
             sumX == SumRange([i \in 1..n |-> i - 1], 1, n)
             sumY == SumRange(values, 1, n)
             sumXY == SumRange([i \in 1..n |-> (i - 1) * values[i]], 1, n)
             sumXX == SumRange([i \in 1..n |-> (i - 1) * (i - 1)], 1, n)
             denominator == n * sumXX - sumX * sumX
         IN  IF denominator = 0 THEN Null
             ELSE Some((n * sumXY - sumX * sumY) \div denominator)

\* Map.get: the close stored for the date, Null (undefined) when there is none
MapGet(closeByDate, date) ==
    IF date \in DOMAIN closeByDate THEN Some(closeByDate[date]) ELSE Null

\* "benchClose && benchClose !== 0"
Truthy(x) == ~IsNull(x) /\ Val(x) # 0

\* the RS ratios of bars[from..to] that have a usable benchmark close, in bar
\* order
RECURSIVE RsSeries(_, _, _, _)
RsSeries(bars, spyCloseByDate, from, to) ==
    IF from > to THEN <<>>
    ELSE IF from = to
    THEN LET benchClose == MapGet(spyCloseByDate, bars[from].date)
         IN  IF Truthy(benchClose)
             THEN <<(bars[from].close * Scale) \div Val(benchClose)>>
             ELSE <<>>
    ELSE LET mid == (from + to) \div 2
         IN  RsSeries(bars, spyCloseByDate, from, mid)
                \o RsSeries(bars, spyCloseByDate, mid + 1, to)

\* mutant: the last bar is taken whatever its date
LastBarMismatch_neverChecked(lastBar, asOfDate) == FALSE

\* lastBar.date !== asOfDate
LastBarMismatch(lastBar, asOfDate) == lastBar.date # asOfDate

computeIndicatorsFromBars(symbol, asOfDate, bars, spyCloseByDate) ==
    IF Len(bars) = 0 THEN Null
    ELSE
    LET lastBar == bars[Len(bars)] IN
    IF LastBarMismatch(lastBar, asOfDate) THEN Null
    ELSE
    LET closes == [i \in 1..Len(bars) |-> bars[i].close]
        ema21 == computeEma(closes, Ema21Period)
        ema50 == computeEma(closes, Ema50Period)
        ema200 == computeEma(closes, Ema200Period)
        atrPct == computeAtrPct(bars, AtrPeriod)
    IN
    IF IsNull(ema21) \/ IsNull(ema50) \/ IsNull(ema200) \/ IsNull(atrPct) THEN Null
    ELSE
    LET spyClose == MapGet(spyCloseByDate, asOfDate) IN
    IF ~Truthy(spyClose) THEN Null
    ELSE
    LET rsVsSpy == (lastBar.close * Scale) \div Val(spyClose)
        rsSeries == RsSeries(bars, spyCloseByDate, 1, Len(bars))
        rsSlope10d == computeSlope(LastN(rsSeries, SlopeWindow))
    IN
    IF IsNull(rsSlope10d) THEN Null
    ELSE
    LET volumeZ == computeZScore(LastN([i \in 1..Len(bars) |-> bars[i].volume], ZScoreWindow)) IN
    IF IsNull(volumeZ) THEN Null
    ELSE Some([symbol |-> symbol, date |-> asOfDate,
               ema21 |-> Val(ema21), ema50 |-> Val(ema50), ema200 |-> Val(ema200),
               atr_pct |-> Val(atrPct), rs_vs_spy |-> rsVsSpy,
               rs_slope_10d |-> Val(rsSlope10d), volume_z |-> Val(volumeZ),
               dollar_vol |-> lastBar.close * lastBar.volume])

(***************************************************************************)
(* A specification leaves the variables of the others idle                 *)
(***************************************************************************)
RankIdle == rankIn = <<>> /\ rankOut = <<>> /\ rankPc = "idle"
IndIdle == indCase = <<>> /\ indOut = Null /\ indPc = "idle"
DbIdle ==
    /\ price_bars_daily = <<>> /\ indicators_daily = <<>> /\ sector_metrics_weekly = <<>>
    /\ sectors_enabled = {} /\ feed = 1 /\ response = <<>> /\ steps = 0
ConcIdle == conc = <<>> /\ invocations = <<>>
ApiIdle == requests = <<>> /\ clock = 0
FnIdle == fnIn = <<>> /\ fnOut = <<>> /\ fnPc = "idle"
SchedIdle == sched = <<>> /\ sent = <<>>
EngIdle == paper_positions = <<>> /\ signals = <<>> /\ engine = <<>>

(***************************************************************************)
(* Market data: what the Stooq feed serves                                 *)
(***************************************************************************)
Symbols == {"SPY", "SMH", "XBI", "NVDA", "DXY"}

BasePrice(symbol) ==
    CASE symbol = "SPY" -> 20
      [] symbol = "SMH" -> 10
      [] symbol = "XBI" -> 8
      [] OTHER -> 12

Phase(symbol) ==
    CASE symbol = "SPY" -> 0
      [] symbol = "SMH" -> 1
      [] symbol = "XBI" -> 2
      [] OTHER -> 1

\* The bar the feed serves for (symbol, date).  Feed 2 differs from feed 1 in
\* the bars of the job dates: the provider restated them.
FeedBar(symbol, date, served, restatedFrom) ==
    LET close == BasePrice(symbol) + ((date + Phase(symbol)) % 3)
                 + (IF served = 2 /\ date >= restatedFrom THEN 1 ELSE 0)
    IN  [symbol |-> symbol, date |-> date, open |-> close, high |-> close + 1,
         low |-> close - 1, close |-> close,
         volume |-> 1 + ((date + Phase(symbol)) % 2) + ((date \div 7) % 2)]

\* first day the feed has a bar for the symbol, and the last day it has one:
\* XBI is a recent listing, DXY is not served at all, and the bars of the
\* second job date are published only once the feed has moved on
FeedFirstDate(symbol) ==
    CASE symbol = "XBI" -> HistLen - 4
      [] symbol = "DXY" -> LastDate + 1
      [] OTHER -> 1

FeedLastDate(served) == IF served = 1 THEN HistLen + 1 ELSE LastDate

\* fetchDailyBars: the parsed CSV of the symbol, one bar per day served
fetchDailyBars(symbol, served) ==
    [i \in 1..Max2(0, FeedLastDate(served) - FeedFirstDate(symbol) + 1) |->
        FeedBar(symbol, FeedFirstDate(symbol) + i - 1, served, HistLen + 1)]

\* the first bar of the list dated asOfDate, Null when there is none
\* mutant: the latest bar of the feed is taken, whatever its date
pickBarForDate_latestBar(bars, asOfDate) ==
    IF Len(bars) = 0 THEN Null ELSE Some(bars[Len(bars)])

pickBarForDate(bars, asOfDate) ==
    LET hits == {i \in 1..Len(bars) : bars[i].date = asOfDate}
    IN  IF hits = {} THEN Null
        ELSE Some(bars[CHOOSE i \in hits : \A j \in hits : i <= j])

(***************************************************************************)
(* Tables.  A table maps a primary key to the list of rows stored under    *)
(* it; a key that is not in the domain has no row.                         *)
(***************************************************************************)
Rows(table, key) == IF key \in DOMAIN table THEN table[key] ELSE <<>>

\* mutant: plain INSERT, the row is added beside the stored one
UpsertRow_blindInsert(table, key, row) ==
    [k \in DOMAIN table \cup {key} |->
        IF k = key THEN Append(Rows(table, key), row) ELSE table[k]]

\* INSERT ... ON CONFLICT (key) DO UPDATE of one row: .onConflict(key).merge()
UpsertRow(table, key, row) ==
    [k \in DOMAIN table \cup {key} |->
        IF k = key
        THEN IF Rows(table, key) = <<>> THEN <<row>> ELSE [table[key] EXCEPT ![1] = row]
        ELSE table[k]]

\* the rows of one statement are applied in order
RECURSIVE UpsertAll(_, _, _)
UpsertAll(table, keys, rows) ==
    IF rows = <<>> THEN table
    ELSE UpsertAll(UpsertRow(table, Head(keys), Head(rows)), Tail(keys), Tail(rows))

\* a DATE column comes back as a timestamp at midnight of that day
DbDate(day) == [day |-> day, minutes |-> 0]

\* normalizeDate: the first 10 characters of the ISO text, that is the day
normalizeDate(value) == value.day

\* toUpperCase on the symbols a payload is written with
ToUpperCase(symbol) ==
    CASE symbol = "spy" -> "SPY"
      [] symbol = "nvda" -> "NVDA"
      [] symbol = "smh" -> "SMH"
      [] symbol = "xbi" -> "XBI"
      [] OTHER -> symbol

\* Array.from(new Set(list)): first occurrences, in order
RECURSIVE Unique(_)
Unique(list) ==
    IF list = <<>> THEN <<>>
    ELSE LET before == Unique(SubSeq(list, 1, Len(list) - 1))
             last == list[Len(list)]
         IN  IF last \in Range(before) THEN before ELSE Append(before, last)

UniqueSymbols(symbols) == Unique([i \in 1..Len(symbols) |-> ToUpperCase(symbols[i])])

SeqFilter(list, Keep(_)) == SelectSeq(list, Keep)

(***************************************************************************)
(* price_bars_daily                                                        *)
(***************************************************************************)
\* mutant: the existence check finds nothing
getExistingBars_none(bars_table, asOfDate, symbols) == {}

getExistingBars(bars_table, asOfDate, symbols) ==
    IF Len(symbols) = 0 THEN {}
    ELSE {symbol \in Range(symbols) :
            \E row \in Range(Rows(bars_table, <<symbol, asOfDate>>)) :
                row.date = asOfDate /\ row.symbol = symbol}

RECURSIVE InsertAll(_, _, _)
InsertAll(table, keys, rows) ==
    IF rows = <<>> THEN table
    ELSE InsertAll(UpsertRow_blindInsert(table, Head(keys), Head(rows)), Tail(keys), Tail(rows))

\* mutant: insert(rows) without onConflict().merge()
upsertPriceBars_plainInsert(bars_table, bars) ==
    IF Len(bars) = 0 THEN [table |-> bars_table, count |-> 0]
    ELSE [table |-> InsertAll(bars_table,
                              [i \in 1..Len(bars) |-> <<bars[i].symbol, bars[i].date>>],
                              bars),
          count |-> Len(bars)]

upsertPriceBars(bars_table, bars) ==
    IF Len(bars) = 0 THEN [table |-> bars_table, count |-> 0]
    ELSE [table |-> UpsertAll(bars_table,
                              [i \in 1..Len(bars) |-> <<bars[i].symbol, bars[i].date>>],
                              bars),
          count |-> Len(bars)]

\* the rows of the symbol dated from..to, oldest first; keys is DOMAIN bars_table
RECURSIVE RowsByDate(_, _, _, _, _)
RowsByDate(bars_table, keys, symbol, from, to) ==
    IF from > to THEN <<>>
    ELSE IF from = to
         THEN IF <<symbol, from>> \in keys THEN bars_table[<<symbol, from>>] ELSE <<>>
    ELSE LET mid == (from + to) \div 2
         IN  RowsByDate(bars_table, keys, symbol, from, mid)
                \o RowsByDate(bars_table, keys, symbol, mid + 1, to)

\* WHERE symbol = ? AND date <= ? ORDER BY date DESC LIMIT ?, then reversed
loadBarsForSymbol(bars_table, symbol, endDate, limit) ==
    LET rows == LastN(RowsByDate(bars_table, DOMAIN bars_table, symbol, 1, endDate), limit)
    IN  [i \in 1..Len(rows) |-> [rows[i] EXCEPT !.date = normalizeDate(DbDate(rows[i].date))]]

\* defaultHandlers.dailyIngest on the table and the feed as they are
dailyIngest(bars_table, served, payload) ==
    LET uniqueSymbols == UniqueSymbols(payload.symbols)
        existing == IF payload.force THEN {}
                    ELSE getExistingBars(bars_table, payload.asOfDate, uniqueSymbols)
        NotExisting(symbol) == symbol \notin existing
        symbolsToFetch == SeqFilter(uniqueSymbols, NotExisting)
        picked == [i \in 1..Len(symbolsToFetch) |->
                     pickBarForDate(fetchDailyBars(symbolsToFetch[i], served), payload.asOfDate)]
        Found(bar) == ~IsNull(bar)
        found == SeqFilter(picked, Found)
        fetchedBars == [i \in 1..Len(found) |-> Val(found[i])]
        written == upsertPriceBars(bars_table, fetchedBars)
    IN  [price_bars_daily |-> written.table,
         symbolsToFetch |-> symbolsToFetch,
         fetchedBars |-> fetchedBars,
         result |-> [asOfDate |-> payload.asOfDate,
                     symbolsProcessed |-> Len(uniqueSymbols),
                     barsUpserted |-> written.count]]

(***************************************************************************)
(* indicators_daily                                                        *)
(***************************************************************************)
DefaultLookbackDays == 260

\* mutant: insert(rows) without onConflict().merge()
upsertIndicators_plainInsert(ind_table, rows) ==
    IF Len(rows) = 0 THEN [table |-> ind_table, count |-> 0]
    ELSE [table |-> InsertAll(ind_table,
                              [i \in 1..Len(rows) |-> <<rows[i].symbol, rows[i].date>>],
                              rows),
          count |-> Len(rows)]

upsertIndicators(ind_table, rows) ==
    IF Len(rows) = 0 THEN [table |-> ind_table, count |-> 0]
    ELSE [table |-> UpsertAll(ind_table,
                              [i \in 1..Len(rows) |-> <<rows[i].symbol, rows[i].date>>],
                              rows),
          count |-> Len(rows)]

\* new Map(spyBars.map((bar) => [bar.date, bar.close])): a later bar of the
\* same date replaces an earlier one
RECURSIVE CloseByDateOf(_, _, _)
CloseByDateOf(bars, from, to) ==
    IF from > to THEN <<>>
    ELSE IF from = to THEN bars[from].date :> bars[from].close
    ELSE LET mid == (from + to) \div 2
         IN  CloseByDateOf(bars, mid + 1, to) @@ CloseByDateOf(bars, from, mid)

CloseByDate(bars) == CloseByDateOf(bars, 1, Len(bars))

computeIndicatorsForSymbol(bars_table, symbol, asOfDate, lookbackDays, spyCloseByDate) ==
    computeIndicatorsFromBars(symbol, asOfDate,
        loadBarsForSymbol(bars_table, symbol, asOfDate, lookbackDays), spyCloseByDate)

\* defaultHandlers.computeIndicators on the tables as they are
computeIndicators(bars_table, ind_table, payload) ==
    LET uniqueSymbols == UniqueSymbols(payload.symbols)
        lookbackDays == IF IsNull(payload.lookbackDays) THEN DefaultLookbackDays
                        ELSE Val(payload.lookbackDays)
        spyBars == loadBarsForSymbol(bars_table, "SPY", payload.asOfDate, lookbackDays)
        spyCloseByDate == CloseByDate(spyBars)
        computed == [i \in 1..Len(uniqueSymbols) |->
                        computeIndicatorsForSymbol(bars_table, uniqueSymbols[i],
                            payload.asOfDate, lookbackDays, spyCloseByDate)]
        Found(row) == ~IsNull(row)
        found == SeqFilter(computed, Found)
        indicatorRows == [i \in 1..Len(found) |-> Val(found[i])]
        written == upsertIndicators(ind_table, indicatorRows)
    IN  [indicators_daily |-> written.table,
         indicatorRows |-> indicatorRows,
         result |-> [asOfDate |-> payload.asOfDate, indicatorsUpserted |-> written.count]]

(***************************************************************************)
(* sectors, sector_members, sector_metrics_weekly                          *)
(***************************************************************************)
\* the rows of table sectors, in the order the query returns them
SectorTable ==
    << [id |-> "semis", name |-> "Semiconductors", benchmark_etf |-> "SMH"],
       [id |-> "biotech", name |-> "Biotech", benchmark_etf |-> "XBI"] >>

\* the enabled rows of sector_members
SectorMembers(sectorId) ==
    IF sectorId = "semis" THEN <<"NVDA", "SMH">> ELSE <<>>

MinSectorBars == 6
SectorBarLimit == 60
DefaultTopN == 2

\* the slip "close >= ema" for "close > ema"
computeSectorMetric_aboveOrEqual(params) ==
    LET etfBars == params.etfBars
        benchBars == params.benchBars
    IN
    IF Len(etfBars) < MinSectorBars \/ Len(benchBars) < MinSectorBars THEN Null
    ELSE
    LET etfReturn == (etfBars[Len(etfBars)].close * Scale)
                        \div etfBars[Len(etfBars) - MinSectorBars + 1].close - Scale
        benchReturn == (benchBars[Len(benchBars)].close * Scale)
                        \div benchBars[Len(benchBars) - MinSectorBars + 1].close - Scale
        relStrength == etfReturn - benchReturn
        etfDollarVolZ == computeZScore(
            LastN([i \in 1..Len(etfBars) |-> etfBars[i].close * etfBars[i].volume],
                  SectorBarLimit))
    IN
    IF IsNull(etfDollarVolZ) THEN Null
    ELSE
    LET memberSymbols == params.memberSymbols
        HasBoth(symbol) ==
            /\ \E row \in Range(params.indicatorRows) : row.symbol = symbol
            /\ \E row \in Range(params.priceRows) : row.symbol = symbol
        \* new Map(rows.map(...)): the last row of a symbol wins
        LastOf(rows, symbol) ==
            rows[CHOOSE i \in 1..Len(rows) :
                    /\ rows[i].symbol = symbol
                    /\ \A j \in 1..Len(rows) : rows[j].symbol = symbol => j <= i]
        counted == SeqFilter(memberSymbols, HasBoth)
        Above(symbol) ==
            LastOf(params.priceRows, symbol).close * Scale
                >= LastOf(params.indicatorRows, symbol).ema21
        total == Len(counted)
        above == Len(SeqFilter(counted, Above))
        breadth == IF Len(memberSymbols) > 0
                   THEN IF total = 0 THEN 0 ELSE (above * Scale) \div total
                   ELSE 0
    IN  Some([sector_id |-> params.sectorId, week_end_date |-> params.weekEndDate,
              etf_symbol |-> params.etfSymbol, bench_symbol |-> params.benchmark,
              etf_5d_return |-> etfReturn, bench_5d_return |-> benchReturn,
              rel_strength_5d |-> relStrength, etf_dollar_vol_z |-> Val(etfDollarVolZ),
              breadth_above_ema21 |-> breadth, rank |-> 0])

computeSectorMetric(params) ==
    LET etfBars == params.etfBars
        benchBars == params.benchBars
    IN
    IF Len(etfBars) < MinSectorBars \/ Len(benchBars) < MinSectorBars THEN Null
    ELSE
    LET etfReturn == (etfBars[Len(etfBars)].close * Scale)
                        \div etfBars[Len(etfBars) - MinSectorBars + 1].close - Scale
        benchReturn == (benchBars[Len(benchBars)].close * Scale)
                        \div benchBars[Len(benchBars) - MinSectorBars + 1].close - Scale
        relStrength == etfReturn - benchReturn
        etfDollarVolZ == computeZScore(
            LastN([i \in 1..Len(etfBars) |-> etfBars[i].close * etfBars[i].volume],
                  SectorBarLimit))
    IN
    IF IsNull(etfDollarVolZ) THEN Null
    ELSE
    LET memberSymbols == params.memberSymbols
        HasBoth(symbol) ==
            /\ \E row \in Range(params.indicatorRows) : row.symbol = symbol
            /\ \E row \in Range(params.priceRows) : row.symbol = symbol
        \* new Map(rows.map(...)): the last row of a symbol wins
        LastOf(rows, symbol) ==
            rows[CHOOSE i \in 1..Len(rows) :
                    /\ rows[i].symbol = symbol
                    /\ \A j \in 1..Len(rows) : rows[j].symbol = symbol => j <= i]
        counted == SeqFilter(memberSymbols, HasBoth)
        Above(symbol) ==
            LastOf(params.priceRows, symbol).close * Scale
                > LastOf(params.indicatorRows, symbol).ema21
        total == Len(counted)
        above == Len(SeqFilter(counted, Above))
        breadth == IF Len(memberSymbols) > 0
                   THEN IF total = 0 THEN 0 ELSE (above * Scale) \div total
                   ELSE 0
    IN  Some([sector_id |-> params.sectorId, week_end_date |-> params.weekEndDate,
              etf_symbol |-> params.etfSymbol, bench_symbol |-> params.benchmark,
              etf_5d_return |-> etfReturn, bench_5d_return |-> benchReturn,
              rel_strength_5d |-> relStrength, etf_dollar_vol_z |-> Val(etfDollarVolZ),
              breadth_above_ema21 |-> breadth, rank |-> 0])

\* the rows of the table dated date whose symbol is one of symbols
RowsOn(table, date, symbols) ==
    LET PerSymbol(i) == Rows(table, <<symbols[i], date>>)
        Cat[i \in 0..Len(symbols)] == IF i = 0 THEN <<>> ELSE Cat[i - 1] \o PerSymbol(i)
    IN  Cat[Len(symbols)]

computeWeeklySectorMetrics(bars_table, ind_table, enabled, weekEndDate, benchmark) ==
    LET IsEnabled(sector) == sector.id \in enabled
        sectors == SeqFilter(SectorTable, IsEnabled)
        HasEtf(sector) == sector.benchmark_etf # ""
        withEtf == SeqFilter(sectors, HasEtf)
        MetricOf(sector) ==
            LET memberSymbols == SectorMembers(sector.id)
            IN  computeSectorMetric(
                    [sectorId |-> sector.id, etfSymbol |-> sector.benchmark_etf,
                     benchmark |-> benchmark, weekEndDate |-> weekEndDate,
                     etfBars |-> loadBarsForSymbol(bars_table, sector.benchmark_etf,
                                                   weekEndDate, SectorBarLimit),
                     benchBars |-> loadBarsForSymbol(bars_table, benchmark,
                                                     weekEndDate, SectorBarLimit),
                     memberSymbols |-> memberSymbols,
                     indicatorRows |-> RowsOn(ind_table, weekEndDate, memberSymbols),
                     priceRows |-> RowsOn(bars_table, weekEndDate, memberSymbols)])
        computed == [i \in 1..Len(withEtf) |-> MetricOf(withEtf[i])]
        Found(metric) == ~IsNull(metric)
        found == SeqFilter(computed, Found)
        metrics == [i \in 1..Len(found) |-> Val(found[i])]
    IN  IF Len(sectors) = 0 THEN [rows |-> <<>>, sectorNameById |-> <<>>]
        ELSE [rows |-> rankSectorMetrics(metrics),
              sectorNameById |-> [id \in {withEtf[i].id : i \in 1..Len(withEtf)} |->
                    (CHOOSE sector \in Range(withEtf) : sector.id = id).name]]

\* mutant: one INSERT per row, and the statements after the first are lost
upsertSectorMetrics_rowByRow(metrics_table, rows) ==
    IF Len(rows) = 0 THEN [table |-> metrics_table, count |-> 0]
    ELSE [table |-> UpsertRow(metrics_table,
                              <<rows[1].sector_id, rows[1].week_end_date>>, rows[1]),
          count |-> Len(rows)]

upsertSectorMetrics(metrics_table, rows) ==
    IF Len(rows) = 0 THEN [table |-> metrics_table, count |-> 0]
    ELSE [table |-> UpsertAll(metrics_table,
                        [i \in 1..Len(rows) |-> <<rows[i].sector_id, rows[i].week_end_date>>],
                        rows),
          count |-> Len(rows)]

\* metrics.sort((a, b) => a.rank - b.rank): stable, ascending by rank
RECURSIVE InsertByRank(_, _)
InsertByRank(sorted, item) ==
    IF sorted = <<>> THEN <<item>>
    ELSE IF Head(sorted).rank - item.rank > 0
         THEN <<item>> \o sorted
         ELSE <<Head(sorted)>> \o InsertByRank(Tail(sorted), item)

RECURSIVE SortByRank(_)
SortByRank(items) ==
    IF items = <<>> THEN <<>>
    ELSE InsertByRank(SortByRank(SubSeq(items, 1, Len(items) - 1)), items[Len(items)])

\* defaultHandlers.weeklySectorRank on the tables as they are
weeklySectorRank(bars_table, ind_table, metrics_table, enabled, payload) ==
    LET computed == computeWeeklySectorMetrics(bars_table, ind_table, enabled,
                                               payload.weekEndDate, payload.benchmark)
        metrics == computed.rows
        written == upsertSectorMetrics(metrics_table, metrics)
        topN == IF IsNull(payload.topN) THEN DefaultTopN ELSE Val(payload.topN)
        sorted == SortByRank(metrics)
        top == SubSeq(sorted, 1, Min2(topN, Len(sorted)))
    IN  [sector_metrics_weekly |-> written.table,
         metrics |-> metrics,
         result |-> [weekEndDate |-> payload.weekEndDate,
                     sectorsRanked |-> written.count,
                     topSectors |-> [i \in 1..Len(top) |->
                        [sector |-> IF top[i].sector_id \in DOMAIN computed.sectorNameById
                                    THEN computed.sectorNameById[top[i].sector_id]
                                    ELSE top[i].sector_id,
                         rank |-> top[i].rank,
                         rel_strength_5d |-> top[i].rel_strength_5d]]]]

(***************************************************************************)
(* Spec: the three jobs run one after the other, in any order and with any *)
(* of the payloads below, while the feed and table sectors change          *)
(***************************************************************************)
\* price_bars_daily after the daily ingests of the days 1..HistLen
HistoryBars ==
    [key \in {<<symbol, date>> \in Symbols \X (1..HistLen) : date >= FeedFirstDate(symbol)} |->
        <<FeedBar(key[1], key[2], 1, HistLen + 1)>>]

DailyIngestPayloads ==
    { [asOfDate |-> HistLen + 1, symbols |-> <<"spy", "NVDA", "SPY">>, force |-> FALSE],
      [asOfDate |-> HistLen + 1, symbols |-> <<"spy", "NVDA", "SPY">>, force |-> TRUE],
      [asOfDate |-> HistLen + 1, symbols |-> <<"XBI", "SMH">>, force |-> FALSE],
      [asOfDate |-> LastDate, symbols |-> <<"SPY", "XBI">>, force |-> FALSE] }

ComputeIndicatorsPayloads ==
    { [asOfDate |-> HistLen + 1, symbols |-> <<"nvda", "SPY", "XBI">>, lookbackDays |-> Null],
      [asOfDate |-> HistLen + 1, symbols |-> <<"NVDA">>, lookbackDays |-> Some(Ema200Period - 1)],
      [asOfDate |-> LastDate, symbols |-> <<"nvda", "SPY", "XBI">>, lookbackDays |-> Null] }

WeeklySectorRankPayloads ==
    { [weekEndDate |-> HistLen + 1, benchmark |-> "SPY", topN |-> Null],
      [weekEndDate |-> HistLen + 1, benchmark |-> "DXY", topN |-> Some(1)],
      [weekEndDate |-> LastDate, benchmark |-> "SPY", topN |-> Some(1)] }

\* the tables after the daily flow of day HistLen + 1 (ingest, then indicators)
FlowDoneBars ==
    dailyIngest(
        dailyIngest(HistoryBars, 1,
            [asOfDate |-> HistLen + 1, symbols |-> <<"SPY", "NVDA">>, force |-> FALSE]
        ).price_bars_daily, 1,
        [asOfDate |-> HistLen + 1, symbols |-> <<"XBI", "SMH">>, force |-> FALSE]
    ).price_bars_daily

FlowDoneIndicators ==
    computeIndicators(FlowDoneBars, <<>>,
        [asOfDate |-> HistLen + 1, symbols |-> <<"SPY", "NVDA", "XBI", "SMH">>,
         lookbackDays |-> Null]).indicators_daily

\* the model starts either before or after the daily flow of day HistLen + 1
Init ==
    /\ \/ price_bars_daily = HistoryBars /\ indicators_daily = <<>>
       \/ price_bars_daily = FlowDoneBars /\ indicators_daily = FlowDoneIndicators
    /\ sector_metrics_weekly = <<>>
    /\ sectors_enabled = {SectorTable[i].id : i \in 1..Len(SectorTable)}
    /\ feed = 1
    /\ response = [job |-> "none"]
    /\ steps = 0
    /\ RankIdle
    /\ IndIdle
    /\ ConcIdle
    /\ ApiIdle
    /\ FnIdle
    /\ SchedIdle
    /\ EngIdle

DailyIngestJob ==
    \E payload \in DailyIngestPayloads :
        \E run \in {dailyIngest(price_bars_daily, feed, payload)} :
            /\ steps < MaxSteps
            /\ steps' = steps + 1
            /\ price_bars_daily' = run.price_bars_daily
            /\ response' = [job |-> "dailyIngest", payload |-> payload, result |-> run.result,
                            rows |-> run.fetchedBars, served |-> feed,
                            enabled |-> sectors_enabled]
            /\ UNCHANGED <<indicators_daily, sector_metrics_weekly, sectors_enabled, feed,
                           rankVars, indVars, concVars, apiVars, fnVars, schedVars, engVars>>

ComputeIndicatorsJob ==
    \E payload \in ComputeIndicatorsPayloads :
        \E run \in {computeIndicators(price_bars_daily, indicators_daily, payload)} :
            /\ steps < MaxSteps
            /\ steps' = steps + 1
            /\ indicators_daily' = run.indicators_daily
            /\ response' = [job |-> "computeIndicators", payload |-> payload,
                            result |-> run.result, rows |-> run.indicatorRows,
                            served |-> feed, enabled |-> sectors_enabled]
            /\ UNCHANGED <<price_bars_daily, sector_metrics_weekly, sectors_enabled, feed,
                           rankVars, indVars, concVars, apiVars, fnVars, schedVars, engVars>>

WeeklySectorRankJob ==
    \E payload \in WeeklySectorRankPayloads :
        \E run \in {weeklySectorRank(price_bars_daily, indicators_daily,
                                     sector_metrics_weekly, sectors_enabled, payload)} :
            /\ steps < MaxSteps
            /\ steps' = steps + 1
            /\ sector_metrics_weekly' = run.sector_metrics_weekly
            /\ response' = [job |-> "weeklySectorRank", payload |-> payload,
                            result |-> run.result, rows |-> run.metrics,
                            served |-> feed, enabled |-> sectors_enabled]
            /\ UNCHANGED <<price_bars_daily, indicators_daily, sectors_enabled, feed,
                           rankVars, indVars, concVars, apiVars, fnVars, schedVars, engVars>>

\* the provider publishes the next day and restates the bars of the job dates
FeedRestates ==
    /\ steps < MaxSteps
    /\ feed = 1
    /\ feed' = 2
    /\ steps' = steps + 1
    /\ UNCHANGED <<tableVars, sectors_enabled, response, rankVars, indVars, concVars, apiVars, fnVars, schedVars, engVars>>

\* an operator flips sectors.enabled of one sector
SectorToggled ==
    \E id \in {SectorTable[i].id : i \in 1..Len(SectorTable)} :
        /\ steps < MaxSteps
        /\ sectors_enabled' = IF id \in sectors_enabled THEN sectors_enabled \ {id}
                              ELSE sectors_enabled \cup {id}
        /\ steps' = steps + 1
        /\ UNCHANGED <<tableVars, feed, response, rankVars, indVars, concVars, apiVars, fnVars, schedVars, engVars>>

Next ==
    \/ DailyIngestJob
    \/ ComputeIndicatorsJob
    \/ WeeklySectorRankJob
    \/ FeedRestates
    \/ SectorToggled

Spec == Init /\ [][Next]_vars

\* the positions <<key, i>> of the rows of a table
Positions(table) ==
    UNION {{<<key, i>> : i \in 1..Len(table[key])} : key \in DOMAIN table}

RowAt(table, position) == table[position[1]][position[2]]

OneRowPerKey(table) == \A key \in DOMAIN table : Len(table[key]) <= 1

\* the last job run again now, with its payload
Rerun ==
    IF response.job = "dailyIngest"
    THEN CHOOSE rerun \in
            {[tables |-> <<run.price_bars_daily, indicators_daily, sector_metrics_weekly>>,
              result |-> run.result, rows |-> run.fetchedBars] :
                run \in {dailyIngest(price_bars_daily, feed, response.payload)}} : TRUE
    ELSE IF response.job = "computeIndicators"
    THEN CHOOSE rerun \in
            {[tables |-> <<price_bars_daily, run.indicators_daily, sector_metrics_weekly>>,
              result |-> run.result, rows |-> run.indicatorRows] :
                run \in {computeIndicators(price_bars_daily, indicators_daily,
                                           response.payload)}} : TRUE
    ELSE CHOOSE rerun \in
            {[tables |-> <<price_bars_daily, indicators_daily, run.sector_metrics_weekly>>,
              result |-> run.result, rows |-> run.metrics] :
                run \in {weeklySectorRank(price_bars_daily, indicators_daily,
                            sector_metrics_weekly, sectors_enabled, response.payload)}} : TRUE

\* the last response is that of a job, and neither the provider's data nor
\* table sectors changed since that job ran
AfterFirstRun ==
    /\ response.job # "none"
    /\ response.served = feed
    /\ response.enabled = sectors_enabled

\* C3 (as stated): the rows of sector_metrics_weekly of one week carry
\* pairwise distinct ranks, whatever weeklySectorRank runs stored them.
C3_RanksDistinctPerWeek ==
    \A p, q \in Positions(sector_metrics_weekly) :
        LET a == RowAt(sector_metrics_weekly, p)
            b == RowAt(sector_metrics_weekly, q)
        IN  (p # q /\ a.week_end_date = b.week_end_date) => a.rank # b.rank

\* C5: every row (symbol, date) of indicators_daily has a row of the same
\* (symbol, date) in price_bars_daily.
C5_IndicatorHasBar ==
    \A p \in Positions(indicators_daily) :
        LET row == RowAt(indicators_daily, p)
        IN  \E bar \in Range(Rows(price_bars_daily, <<row.symbol, row.date>>)) :
                bar.symbol = row.symbol /\ bar.date = row.date

\* C5 witness: computeIndicators has stored a row for one symbol and skipped
\* a requested symbol whose last bar is dated before asOfDate.
C5_Witness ==
    /\ response.job = "computeIndicators"
    /\ response.result.indicatorsUpserted > 0
    /\ \E symbol \in Range(UniqueSymbols(response.payload.symbols)) :
          LET bars == loadBarsForSymbol(price_bars_daily, symbol,
                                        response.payload.asOfDate, DefaultLookbackDays)
          IN  /\ Len(bars) >= Ema200Period
              /\ bars[Len(bars)].date < response.payload.asOfDate
              /\ Rows(indicators_daily, <<symbol, response.payload.asOfDate>>) = <<>>

\* C6: upserting again the rows that computeIndicators has just upserted,
\* all together or one by one, leaves indicators_daily as it is, and the
\* table never holds more than one row per (symbol, date).
C6_UpsertTwiceIsUpsertOnce ==
    /\ OneRowPerKey(indicators_daily)
    /\ response.job = "computeIndicators" =>
          /\ upsertIndicators(indicators_daily, response.rows).table = indicators_daily
          /\ \A i \in 1..Len(response.rows) :
                upsertIndicators(indicators_daily, <<response.rows[i]>>).table
                    = indicators_daily

\* C6 witness: computeIndicators has upserted rows over rows that were there.
C6_Witness ==
    /\ response.job = "computeIndicators"
    /\ Len(response.rows) >= 2
    /\ steps >= 2
    /\ Cardinality(DOMAIN indicators_daily) > Len(response.rows)

\* C7 (as stated): a job run again with the same payload, the provider and
\* the input tables unchanged, leaves the three tables as they are and
\* returns the same result and the same computed rows.
C7_RerunReturnsSame ==
    AfterFirstRun =>
        \A rerun \in {Rerun} :
            /\ rerun.tables = <<price_bars_daily, indicators_daily, sector_metrics_weekly>>
            /\ rerun.result = response.result
            /\ rerun.rows = response.rows

\* C7 (amended): the re-run leaves the three tables as they are;
\* computeIndicators, weeklySectorRank and dailyIngest with force return the
\* same result and rows; dailyIngest without force fetches no bar again and
\* reports barsUpserted = 0.
C7_RerunLeavesTables ==
    AfterFirstRun =>
        \A rerun \in {Rerun} :
            /\ rerun.tables = <<price_bars_daily, indicators_daily, sector_metrics_weekly>>
            /\ IF response.job = "dailyIngest" /\ ~response.payload.force
               THEN /\ rerun.result = [response.result EXCEPT !.barsUpserted = 0]
                    /\ rerun.rows = <<>>
               ELSE /\ rerun.result = response.result
                    /\ rerun.rows = response.rows

\* C7 witness: a dailyIngest without force has stored bars, and nothing
\* changed since.
C7_Witness ==
    /\ AfterFirstRun
    /\ response.job = "dailyIngest"
    /\ ~response.payload.force
    /\ response.result.barsUpserted > 0

\* the keys a dailyIngest run with this payload may write
C29_Footprint(payload) ==
    {<<ToUpperCase(payload.symbols[i]), payload.asOfDate>> : i \in 1..Len(payload.symbols)}

\* C29: a dailyIngest run changes only rows of price_bars_daily keyed
\* (s, asOfDate) with s one of the upper-cased symbols of its payload; it
\* writes at most one bar per unique symbol (barsUpserted <= symbolsProcessed);
\* without force a symbol that has a bar for asOfDate is neither fetched nor
\* rewritten.
C29_IngestFootprint ==
    [][ (/\ steps' = steps + 1
         /\ response'.job = "dailyIngest"
         /\ feed' = feed
         /\ sectors_enabled' = sectors_enabled) =>
        /\ \A key \in (DOMAIN price_bars_daily \cup DOMAIN price_bars_daily')
                        \ C29_Footprint(response'.payload) :
              Rows(price_bars_daily', key) = Rows(price_bars_daily, key)
        /\ \A i \in 1..Len(response'.rows) :
              /\ <<response'.rows[i].symbol, response'.rows[i].date>>
                    \in C29_Footprint(response'.payload)
              /\ \A j \in 1..Len(response'.rows) :
                    response'.rows[j].symbol = response'.rows[i].symbol => j = i
        /\ response'.result.barsUpserted = Len(response'.rows)
        /\ response'.result.symbolsProcessed
                = Cardinality(C29_Footprint(response'.payload))
        /\ response'.result.barsUpserted <= response'.result.symbolsProcessed
        /\ ~response'.payload.force =>
              \A key \in C29_Footprint(response'.payload) :
                  Rows(price_bars_daily, key) # <<>> =>
                      /\ Rows(price_bars_daily', key) = Rows(price_bars_daily, key)
                      /\ \A i \in 1..Len(response'.rows) :
                            response'.rows[i].symbol # key[1] ]_vars

\* C29 witness: a dailyIngest without force for spy, NVDA, SPY found the
\* bars of both symbols stored, processed 2 symbols and wrote nothing.
C29_Witness ==
    /\ response.job = "dailyIngest"
    /\ response.payload.symbols = <<"spy", "NVDA", "SPY">>
    /\ ~response.payload.force
    /\ response.result.symbolsProcessed = 2
    /\ response.result.barsUpserted = 0
    /\ \A key \in C29_Footprint(response.payload) : Rows(price_bars_daily, key) # <<>>

\* C9 (as stated): a stored bar is never changed by a later step, and there
\* is never more than one bar per (symbol, date).
C9_BarImmutable ==
    [][ price_bars_daily' # price_bars_daily =>
        /\ OneRowPerKey(price_bars_daily')
        /\ \A key \in DOMAIN price_bars_daily :
              price_bars_daily[key] # <<>> =>
                  /\ key \in DOMAIN price_bars_daily'
                  /\ price_bars_daily'[key] = price_bars_daily[key] ]_vars

\* C9 (amended): there is never more than one bar per (symbol, date), and a
\* stored bar changes only in a dailyIngest run with force = true for its
\* symbol and date, which replaces it by the bar the provider serves.
C9_BarChangesOnlyByForce ==
    [][ price_bars_daily' # price_bars_daily =>
        /\ OneRowPerKey(price_bars_daily')
        /\ \A key \in DOMAIN price_bars_daily :
              price_bars_daily[key] # <<>> =>
                  /\ key \in DOMAIN price_bars_daily'
                  /\ price_bars_daily'[key] # price_bars_daily[key] =>
                        /\ response'.job = "dailyIngest"
                        /\ response'.payload.force
                        /\ response'.payload.asOfDate = key[2]
                        /\ key[1] \in Range(UniqueSymbols(response'.payload.symbols))
                        /\ price_bars_daily'[key]
                              = <<Val(pickBarForDate(fetchDailyBars(key[1], feed), key[2]))>>
      ]_vars

\* C9 witness: a dailyIngest without force ran for symbols whose bars were
\* stored while the provider now serves restated bars.
C9_Witness ==
    /\ response.job = "dailyIngest"
    /\ ~response.payload.force
    /\ response.served = 2
    /\ response.result.barsUpserted = 0
    /\ \E symbol \in Range(UniqueSymbols(response.payload.symbols)) :
          LET key == <<symbol, response.payload.asOfDate>>
              served == pickBarForDate(fetchDailyBars(symbol, feed), key[2])
          IN  /\ Rows(price_bars_daily, key) # <<>>
              /\ ~IsNull(served)
              /\ Rows(price_bars_daily, key) # <<Val(served)>>

(***************************************************************************)
(* SpecInd: computeIndicatorsFromBars applied to bar histories of every    *)
(* length up to MaxBars                                                    *)
(***************************************************************************)
IndAsOfDate == MaxBars + 1

BenchKinds == {"full", "missingAsOf", "zeroAsOf", "onlyAsOf", "twoDates", "empty"}

IndCases ==
    [n : 0..MaxBars,            \* number of bars
     lag : {0, 1},              \* days the last bar lies before asOfDate
     zeroClose : BOOLEAN,       \* the last bar closes at 0
     bench : BenchKinds]        \* shape of the benchmark close map

\* n consecutive daily bars of NVDA, the last one dated asOfDate - lag
IndBars(c) ==
    [i \in 1..c.n |->
        LET bar == FeedBar("NVDA", IndAsOfDate - c.lag - (c.n - i), 1, 0)
        IN  IF i = c.n /\ c.zeroClose THEN [bar EXCEPT !.close = 0] ELSE bar]

IndBench(c) ==
    LET dates == CASE c.bench = "full" -> 1..IndAsOfDate
                   [] c.bench = "missingAsOf" -> 1..IndAsOfDate - 1
                   [] c.bench = "zeroAsOf" -> 1..IndAsOfDate
                   [] c.bench = "onlyAsOf" -> {IndAsOfDate}
                   [] c.bench = "twoDates" -> {IndAsOfDate - 1, IndAsOfDate}
                   [] OTHER -> {}
    IN  [d \in dates |->
            IF c.bench = "zeroAsOf" /\ d = IndAsOfDate THEN 0
            ELSE FeedBar("SPY", d, 1, 0).close]

IndInit ==
    /\ indCase \in IndCases
    /\ indOut = Null
    /\ indPc = "input"
    /\ RankIdle
    /\ DbIdle
    /\ ConcIdle
    /\ ApiIdle
    /\ FnIdle
    /\ SchedIdle
    /\ EngIdle

IndCall ==
    /\ indPc = "input"
    /\ indOut' = computeIndicatorsFromBars("NVDA", IndAsOfDate, IndBars(indCase), IndBench(indCase))
    /\ indPc' = "returned"
    /\ UNCHANGED <<indCase, rankVars, dbVars, concVars, apiVars, fnVars, schedVars, engVars>>

IndNext == IndCall

SpecInd == IndInit /\ [][IndNext]_vars

\* every sub-computation of the call's input has a value
IndSubComputationsDefined(bars, bench) ==
    LET closes == [i \in 1..Len(bars) |-> bars[i].close]
        volumes == [i \in 1..Len(bars) |-> bars[i].volume]
    IN  /\ ~IsNull(computeEma(closes, 21))
        /\ ~IsNull(computeEma(closes, 50))
        /\ ~IsNull(computeEma(closes, 200))
        /\ ~IsNull(computeAtrPct(bars, 14))
        /\ IndAsOfDate \in DOMAIN bench /\ bench[IndAsOfDate] # 0
        /\ ~IsNull(computeSlope(LastN(RsSeries(bars, bench, 1, Len(bars)), 10)))
        /\ ~IsNull(computeZScore(LastN(volumes, 60)))

\* C4: computeIndicatorsFromBars returns a row exactly when bars is non-empty,
\* the last bar is dated asOfDate and every sub-computation is non-null; fewer
\* than 200 bars, a last bar before asOfDate, a missing or zero benchmark close
\* at asOfDate give no row; a returned row is dated asOfDate.
C4_RowOnlyWhenComplete ==
    indPc = "returned" =>
        LET bars == IndBars(indCase)
            bench == IndBench(indCase)
        IN  /\ ~IsNull(indOut) <=>
                  /\ Len(bars) > 0
                  /\ bars[Len(bars)].date = IndAsOfDate
                  /\ IndSubComputationsDefined(bars, bench)
            /\ ~IsNull(indOut) => Val(indOut).date = IndAsOfDate /\ Val(indOut).symbol = "NVDA"
            /\ indCase.n < 200 => IsNull(indOut)
            /\ indCase.lag > 0 => IsNull(indOut)
            /\ indCase.bench \in {"missingAsOf", "zeroAsOf", "empty", "onlyAsOf"} => IsNull(indOut)
            /\ indCase.zeroClose => IsNull(indOut)
            /\ (/\ indCase.n >= 200 /\ indCase.lag = 0 /\ ~indCase.zeroClose
                /\ indCase.bench \in {"full", "twoDates"}) => ~IsNull(indOut)

C4_Witness ==
    /\ indPc = "returned"
    /\ indCase.n = 200
    /\ indCase.bench = "twoDates"
    /\ ~IsNull(indOut)
    /\ Val(indOut).ema200 > 0

(***************************************************************************)
(* SpecRank: rankSectorMetrics applied to every metric list of the bounds  *)
(***************************************************************************)
RankInputMetric(i, rs, breadth, z) ==
    [sector_id |-> SectorIds[i], week_end_date |-> 1, etf_symbol |-> "SMH",
     bench_symbol |-> "SPY", etf_5d_return |-> rs, bench_5d_return |-> 0,
     rel_strength_5d |-> rs, etf_dollar_vol_z |-> z,
     breadth_above_ema21 |-> breadth, rank |-> 0]

RankInputs ==
    UNION {
        { [i \in 1..n |-> RankInputMetric(i, f[i][1], f[i][2], f[i][3])] :
            f \in [1..n -> RelStrengthValues \X BreadthValues \X DollarVolZValues] }
        : n \in 0..MaxSectors }

RankInit ==
    /\ rankIn \in RankInputs
    /\ rankOut = <<>>
    /\ rankPc = "input"
    /\ IndIdle
    /\ DbIdle
    /\ ConcIdle
    /\ ApiIdle
    /\ FnIdle
    /\ SchedIdle
    /\ EngIdle

RankCall ==
    /\ rankPc = "input"
    /\ rankOut' = rankSectorMetrics(rankIn)
    /\ rankPc' = "ranked"
    /\ UNCHANGED <<rankIn, indVars, dbVars, concVars, apiVars, fnVars, schedVars, engVars>>

RankNext == RankCall

SpecRank == RankInit /\ [][RankNext]_vars

\* the composite score of the specification, spelled out
CompositeScore(m) ==
    5 * m.rel_strength_5d + 3 * m.breadth_above_ema21 + 2 * m.etf_dollar_vol_z

\* position in the returned list of the metric that was at input position i
OutPos(i) == CHOOSE j \in 1..Len(rankOut) : rankOut[j].sector_id = rankIn[i].sector_id

\* C1: rankSectorMetrics returns exactly the N input metrics, and their ranks
\* are a permutation of 1..N (no gap, no duplicate, no rank 0).
C1_RanksArePermutation ==
    rankPc = "ranked" =>
        /\ Len(rankOut) = Len(rankIn)
        /\ { [rankOut[j] EXCEPT !.rank = 0] : j \in 1..Len(rankOut) } = Range(rankIn)
        /\ { rankOut[j].rank : j \in 1..Len(rankOut) } = 1..Len(rankIn)
        /\ \A j, k \in 1..Len(rankOut) : j # k => rankOut[j].rank # rankOut[k].rank

C1_Witness ==
    /\ rankPc = "ranked"
    /\ Len(rankIn) = 3
    /\ CompositeScore(rankIn[1]) = CompositeScore(rankIn[3])
    /\ CompositeScore(rankIn[2]) > CompositeScore(rankIn[1])

\* C2: the returned list is ordered by composite score descending, rank is
\* the 1-based position, a higher score has the smaller rank, and of two equal
\* scores the one earlier in the input has the smaller rank.
C2_RankOrderStable ==
    rankPc = "ranked" =>
        /\ \A j \in 1..Len(rankOut) : rankOut[j].rank = j
        /\ \A j \in 1..Len(rankOut) - 1 :
              CompositeScore(rankOut[j]) >= CompositeScore(rankOut[j + 1])
        /\ \A a, b \in 1..Len(rankIn) :
              /\ CompositeScore(rankIn[a]) > CompositeScore(rankIn[b])
                    => rankOut[OutPos(a)].rank < rankOut[OutPos(b)].rank
              /\ (CompositeScore(rankIn[a]) = CompositeScore(rankIn[b]) /\ a < b)
                    => rankOut[OutPos(a)].rank < rankOut[OutPos(b)].rank

C2_Witness ==
    /\ rankPc = "ranked"
    /\ \E a, b, c \in 1..Len(rankIn) :
          /\ a < b /\ b < c
          /\ CompositeScore(rankIn[a]) < CompositeScore(rankIn[b])
          /\ CompositeScore(rankIn[b]) = CompositeScore(rankIn[c])
          /\ rankIn[b].rel_strength_5d # rankIn[c].rel_strength_5d
          /\ rankOut[1].sector_id = rankIn[b].sector_id
          /\ rankOut[2].sector_id = rankIn[c].sector_id

(***************************************************************************)
(* SpecConc: two invocations of one job handler, called with the same      *)
(* payload, run at the same time.  An invocation gives way to the other at *)
(* its awaits: a step is what it does between two awaits that touch the    *)
(* database or the provider.  computeIndicators and weeklySectorRank read  *)
(* only tables they do not write, so their reads are one step.  The        *)
(* provider serves the same data throughout.                               *)
(***************************************************************************)
InvocationIds == {1, 2}

ConcCalls ==
    {[job |-> "dailyIngest", payload |-> payload] : payload \in DailyIngestPayloads}
        \cup {[job |-> "computeIndicators", payload |-> payload] :
                payload \in ComputeIndicatorsPayloads}
        \cup {[job |-> "weeklySectorRank", payload |-> payload] :
                payload \in WeeklySectorRankPayloads}

ConcStartBars == IF conc.flowDone THEN FlowDoneBars ELSE HistoryBars
ConcStartIndicators == IF conc.flowDone THEN FlowDoneIndicators ELSE <<>>

ConcInit ==
    /\ \E call \in ConcCalls, flowDone \in BOOLEAN, served \in {1, 2} :
          /\ conc = [job |-> call.job, payload |-> call.payload, flowDone |-> flowDone]
          /\ feed = served
    /\ price_bars_daily = ConcStartBars
    /\ indicators_daily = ConcStartIndicators
    /\ sector_metrics_weekly = <<>>
    /\ sectors_enabled = {SectorTable[i].id : i \in 1..Len(SectorTable)}
    /\ invocations = [i \in InvocationIds |->
                        [pc |-> "start", symbolsToFetch |-> <<>>, fetched |-> 0,
                         rows |-> <<>>, result |-> Null]]
    /\ response = <<>>
    /\ steps = 0
    /\ RankIdle
    /\ IndIdle
    /\ ApiIdle
    /\ FnIdle
    /\ SchedIdle
    /\ EngIdle

\* from the call to the first await whose result another invocation can
\* change: dailyIngest reads which bars exist; the other two jobs read
\* their inputs and compute their rows
ConcStart(i) ==
    /\ invocations[i].pc = "start"
    /\ IF conc.job = "dailyIngest"
       THEN \E symbolsToFetch \in
                {dailyIngest(price_bars_daily, feed, conc.payload).symbolsToFetch} :
            invocations' = [invocations EXCEPT
                ![i].symbolsToFetch = symbolsToFetch,
                ![i].pc = IF Len(symbolsToFetch) = 0 THEN "upsert" ELSE "fetch"]
       ELSE IF conc.job = "computeIndicators"
       THEN \E run \in {computeIndicators(price_bars_daily, indicators_daily,
                                          conc.payload)} :
            invocations' = [invocations EXCEPT
                ![i].rows = run.indicatorRows,
                ![i].result = Some(run.result),
                ![i].pc = "upsert"]
       ELSE \E run \in {weeklySectorRank(price_bars_daily, indicators_daily,
                            sector_metrics_weekly, sectors_enabled, conc.payload)} :
            invocations' = [invocations EXCEPT
                ![i].rows = run.metrics,
                ![i].result = Some(run.result),
                ![i].pc = "upsert"]
    /\ UNCHANGED <<tableVars, sectors_enabled, feed, response, steps, conc,
                   rankVars, indVars, apiVars, fnVars, schedVars, engVars>>

\* one turn of the loop "for (const symbol of symbolsToFetch)" of dailyIngest
ConcFetch(i) ==
    /\ invocations[i].pc = "fetch"
    /\ \E mine \in {invocations[i]} :
       \E bar \in {pickBarForDate(
                      fetchDailyBars(mine.symbolsToFetch[mine.fetched + 1], feed),
                      conc.payload.asOfDate)} :
           invocations' = [invocations EXCEPT
               ![i].rows = IF IsNull(bar) THEN mine.rows ELSE Append(mine.rows, Val(bar)),
               ![i].fetched = mine.fetched + 1,
               ![i].pc = IF mine.fetched + 1 = Len(mine.symbolsToFetch)
                         THEN "upsert" ELSE "fetch"]
    /\ UNCHANGED <<tableVars, sectors_enabled, feed, response, steps, conc,
                   rankVars, indVars, apiVars, fnVars, schedVars, engVars>>

\* the upsert statement of the job and its return.  The tables have a
\* primary key: a statement that would leave two rows under one key fails.
ConcUpsert(i) ==
    /\ invocations[i].pc = "upsert"
    /\ \E written \in
            {IF conc.job = "dailyIngest"
             THEN upsertPriceBars(price_bars_daily, invocations[i].rows)
             ELSE IF conc.job = "computeIndicators"
             THEN upsertIndicators(indicators_daily, invocations[i].rows)
             ELSE upsertSectorMetrics(sector_metrics_weekly, invocations[i].rows)} :
          IF OneRowPerKey(written.table)
          THEN /\ price_bars_daily' = IF conc.job = "dailyIngest"
                                      THEN written.table ELSE price_bars_daily
               /\ indicators_daily' = IF conc.job = "computeIndicators"
                                      THEN written.table ELSE indicators_daily
               /\ sector_metrics_weekly' = IF conc.job = "weeklySectorRank"
                                           THEN written.table ELSE sector_metrics_weekly
               /\ invocations' = [invocations EXCEPT
                     ![i].pc = "done",
                     ![i].result =
                        IF conc.job = "dailyIngest"
                        THEN Some([asOfDate |-> conc.payload.asOfDate,
                                   symbolsProcessed |->
                                        Len(UniqueSymbols(conc.payload.symbols)),
                                   barsUpserted |-> written.count])
                        ELSE invocations[i].result]
          ELSE /\ invocations' = [invocations EXCEPT ![i].pc = "failed"]
               /\ UNCHANGED tableVars
    /\ UNCHANGED <<sectors_enabled, feed, response, steps, conc, rankVars, indVars, apiVars, fnVars, schedVars, engVars>>

\* an await of the invocation rejects: a query fails, the provider answers
\* with an HTTP error, or the upsert statement fails (and writes nothing).
\* The handler has no catch: the invocation ends there.
ConcThrow(i) ==
    /\ invocations[i].pc \in {"start", "fetch", "upsert"}
    /\ invocations' = [invocations EXCEPT ![i].pc = "threw"]
    /\ UNCHANGED <<tableVars, sectors_enabled, feed, response, steps, conc,
                   rankVars, indVars, apiVars, fnVars, schedVars, engVars>>

ConcNext ==
    \E i \in InvocationIds :
        \/ ConcStart(i)
        \/ ConcFetch(i)
        \/ ConcUpsert(i)
        \/ ConcThrow(i)

SpecConc == ConcInit /\ [][ConcNext]_vars

\* the three tables after one invocation alone
ConcSingle ==
    IF conc.job = "dailyIngest"
    THEN <<dailyIngest(ConcStartBars, feed, conc.payload).price_bars_daily,
           ConcStartIndicators, <<>> >>
    ELSE IF conc.job = "computeIndicators"
    THEN <<ConcStartBars,
           computeIndicators(ConcStartBars, ConcStartIndicators, conc.payload).indicators_daily,
           <<>> >>
    ELSE <<ConcStartBars, ConcStartIndicators,
           weeklySectorRank(ConcStartBars, ConcStartIndicators, <<>>, sectors_enabled,
                            conc.payload).sector_metrics_weekly>>

\* C8: in every interleaving of two invocations of the same job with the
\* same payload no table ever holds two rows under one key, no invocation
\* fails on a duplicate key, and once both have returned the tables are
\* those one invocation alone leaves.
C8_ConcurrentAsSingle ==
    /\ OneRowPerKey(price_bars_daily)
    /\ OneRowPerKey(indicators_daily)
    /\ OneRowPerKey(sector_metrics_weekly)
    /\ \A i \in InvocationIds : invocations[i].pc # "failed"
    /\ (\A i \in InvocationIds : invocations[i].pc = "done") =>
          <<price_bars_daily, indicators_daily, sector_metrics_weekly>> = ConcSingle

\* C8 witness: both invocations of dailyIngest found the bars missing, each
\* fetched them and each upserted them.
C8_Witness ==
    /\ conc.job = "dailyIngest"
    /\ ~conc.payload.force
    /\ \A i \in InvocationIds :
          /\ invocations[i].pc = "done"
          /\ Val(invocations[i].result).barsUpserted > 0

\* the table the job of SpecConc writes, and the key of one of its rows
ConcTarget ==
    IF conc.job = "dailyIngest" THEN price_bars_daily
    ELSE IF conc.job = "computeIndicators" THEN indicators_daily
    ELSE sector_metrics_weekly

ConcRowKey(row) ==
    IF conc.job = "weeklySectorRank" THEN <<row.sector_id, row.week_end_date>>
    ELSE <<row.symbol, row.date>>

\* C15: the rows of a run become visible in one step: a table changes only
\* when an invocation's upsert returns, and then the target table holds
\* every row the invocation had buffered, every other key is as before and
\* the other tables are untouched.  A run that ends part-way (it throws, or
\* it is never resumed) has written nothing.
C15_BatchWrittenWhole ==
    [][tableVars' # tableVars =>
          \E i \in InvocationIds :
              /\ invocations[i].pc = "upsert"
              /\ invocations'[i].pc = "done"
              /\ \A k \in 1..Len(invocations[i].rows) :
                    Rows(ConcTarget', ConcRowKey(invocations[i].rows[k]))
                        = <<invocations[i].rows[k]>>
              /\ \A key \in DOMAIN ConcTarget' :
                    key \notin {ConcRowKey(invocations[i].rows[k]) :
                                    k \in 1..Len(invocations[i].rows)} =>
                        key \in DOMAIN ConcTarget /\ ConcTarget'[key] = ConcTarget[key]
              /\ conc.job # "dailyIngest" => price_bars_daily' = price_bars_daily
              /\ conc.job # "computeIndicators" => indicators_daily' = indicators_daily
              /\ conc.job # "weeklySectorRank" =>
                    sector_metrics_weekly' = sector_metrics_weekly]_vars

\* C15 witness: of two weeklySectorRank runs one has written its batch of
\* two rows, both are in the table, and the other threw and wrote nothing.
C15_Witness ==
    /\ conc.job = "weeklySectorRank"
    /\ \E i, j \in InvocationIds :
          /\ invocations[i].pc = "done"
          /\ Len(invocations[i].rows) >= 2
          /\ \A k \in 1..Len(invocations[i].rows) :
                Rows(sector_metrics_weekly, ConcRowKey(invocations[i].rows[k]))
                    = <<invocations[i].rows[k]>>
          /\ invocations[j].pc = "threw"
          /\ invocations[j].rows = <<>>

\* the enabled sectors for which computeSectorMetric yields a metric
C16_Cohort ==
    {s \in 1..Len(SectorTable) :
        /\ SectorTable[s].id \in sectors_enabled
        /\ SectorTable[s].benchmark_etf # ""
        /\ ~IsNull(computeSectorMetric(
                [sectorId |-> SectorTable[s].id,
                 etfSymbol |-> SectorTable[s].benchmark_etf,
                 benchmark |-> conc.payload.benchmark,
                 weekEndDate |-> conc.payload.weekEndDate,
                 etfBars |-> loadBarsForSymbol(price_bars_daily,
                                SectorTable[s].benchmark_etf,
                                conc.payload.weekEndDate, SectorBarLimit),
                 benchBars |-> loadBarsForSymbol(price_bars_daily, conc.payload.benchmark,
                                conc.payload.weekEndDate, SectorBarLimit),
                 memberSymbols |-> SectorMembers(SectorTable[s].id),
                 indicatorRows |-> RowsOn(indicators_daily, conc.payload.weekEndDate,
                                          SectorMembers(SectorTable[s].id)),
                 priceRows |-> RowsOn(price_bars_daily, conc.payload.weekEndDate,
                                      SectorMembers(SectorTable[s].id))]))}

\* C16: a weeklySectorRank run ranks the whole cohort at once: the rows it
\* holds for writing are one per qualifying sector with the ranks 1..n, each
\* rank counting the sectors of the cohort that score higher or come earlier;
\* no stored row has rank 0, and topSectors lists the ranks 1, 2, ... in
\* order.
C16_RankedAsWholeCohort ==
    conc # <<>> /\ conc.job = "weeklySectorRank" =>
        /\ \A key \in DOMAIN sector_metrics_weekly :
              \A k \in 1..Len(sector_metrics_weekly[key]) :
                    sector_metrics_weekly[key][k].rank \in 1..Cardinality(C16_Cohort)
        /\ \A i \in InvocationIds :
              invocations[i].pc \in {"upsert", "done"} =>
                  LET rows == invocations[i].rows
                      top == Val(invocations[i].result).topSectors
                  IN  /\ Len(rows) = Cardinality(C16_Cohort)
                      /\ {rows[k].rank : k \in 1..Len(rows)} = 1..Len(rows)
                      /\ \A a, b \in 1..Len(rows) :
                            Score(rows[a]) > Score(rows[b]) => rows[a].rank < rows[b].rank
                      /\ \A k \in 1..Len(top) : top[k].rank = k

\* C16 witness: a run over a cohort of two sectors has written rank 1 and
\* rank 2.
C16_Witness ==
    /\ conc.job = "weeklySectorRank"
    /\ \E i \in InvocationIds :
          /\ invocations[i].pc = "done"
          /\ Len(invocations[i].rows) = 2
          /\ {sector_metrics_weekly[key][1].rank : key \in DOMAIN sector_metrics_weekly}
                = {1, 2}

(***************************************************************************)
(* SpecApi: the three POST routes of createApp.  A request carries an      *)
(* Idempotency-Key header and a JSON body; the route parses the body, and  *)
(* either answers 400 at once or awaits the handler and answers 200.       *)
(* Requests overlap: a second one may arrive while the first awaits.       *)
(***************************************************************************)
MaxRequests == 2

IdempotencyKeys == {"key-1", "key-2"}

\* JSON values as the body parser hands them over
JsonString(text) == [type |-> "string", blank |-> FALSE, text |-> text]
JsonBlank == [type |-> "string", blank |-> TRUE]
JsonNumber(n) == [type |-> "number", number |-> n]
JsonBool(b) == [type |-> "boolean", flag |-> b]
JsonArray(items) == [type |-> "array", items |-> items]
JsonUndefined == [type |-> "undefined"]

Returned(value) == [ok |-> TRUE, value |-> value]
Thrown(field, message) == [ok |-> FALSE, error |-> <<field, message>>]

ensureString(value, field) ==
    IF value.type # "string" \/ value.blank
    THEN Thrown(field, "must be a non-empty string")
    ELSE Returned(value.text)

ensureStringArray(value, field) ==
    IF value.type # "array" \/ Len(value.items) = 0
    THEN Thrown(field, "must be a non-empty array of strings")
    ELSE IF \E k \in 1..Len(value.items) :
                value.items[k].type # "string" \/ value.items[k].blank
    THEN Thrown(field, "must contain only non-empty strings")
    ELSE Returned([k \in 1..Len(value.items) |-> value.items[k].text])

parseDailyIngest(body) ==
    LET asOfDate == ensureString(body.asOfDate, "asOfDate")
        symbols == ensureStringArray(body.symbols, "symbols")
    IN  IF ~asOfDate.ok THEN asOfDate
        ELSE IF ~symbols.ok THEN symbols
        ELSE Returned([asOfDate |-> asOfDate.value, symbols |-> symbols.value,
                       force |-> body.force.type = "boolean" /\ body.force.flag])

parseComputeIndicators(body) ==
    LET lookbackDays == IF body.lookbackDays.type = "number" /\ body.lookbackDays.number > 0
                        THEN Some(body.lookbackDays.number) ELSE Null
        asOfDate == ensureString(body.asOfDate, "asOfDate")
        symbols == ensureStringArray(body.symbols, "symbols")
    IN  IF ~asOfDate.ok THEN asOfDate
        ELSE IF ~symbols.ok THEN symbols
        ELSE Returned([asOfDate |-> asOfDate.value, symbols |-> symbols.value,
                       lookbackDays |-> lookbackDays])

parseWeeklySectorRank(body) ==
    LET topN == IF body.topN.type = "number" /\ body.topN.number > 0
                THEN Some(body.topN.number) ELSE Null
        weekEndDate == ensureString(body.weekEndDate, "weekEndDate")
        benchmark == ensureString(body.benchmark, "benchmark")
    IN  IF ~weekEndDate.ok THEN weekEndDate
        ELSE IF ~benchmark.ok THEN benchmark
        ELSE Returned([weekEndDate |-> weekEndDate.value, benchmark |-> benchmark.value,
                       topN |-> topN])

ParseBody(route, body) ==
    IF route = "/api/jobs/daily-ingest" THEN parseDailyIngest(body)
    ELSE IF route = "/api/jobs/compute-indicators" THEN parseComputeIndicators(body)
    ELSE parseWeeklySectorRank(body)

\* the requests a client sends
ApiCalls ==
    << [route |-> "/api/jobs/daily-ingest",
        body |-> [asOfDate |-> JsonString(HistLen + 1),
                  symbols |-> JsonArray(<<JsonString("spy"), JsonString("NVDA")>>),
                  force |-> JsonBool(TRUE)]],
       [route |-> "/api/jobs/daily-ingest",
        body |-> [asOfDate |-> JsonString(HistLen + 1),
                  symbols |-> JsonArray(<<JsonString("SPY"), JsonBlank>>),
                  force |-> JsonUndefined]],
       [route |-> "/api/jobs/compute-indicators",
        body |-> [asOfDate |-> JsonString(HistLen + 1),
                  symbols |-> JsonArray(<<JsonString("NVDA"), JsonString("SPY")>>),
                  lookbackDays |-> JsonUndefined]],
       [route |-> "/api/jobs/weekly-sector-rank",
        body |-> [weekEndDate |-> JsonString(HistLen + 1),
                  benchmark |-> JsonString("SPY"),
                  topN |-> JsonNumber(1)]] >>

ApiInit ==
    /\ price_bars_daily = FlowDoneBars
    /\ indicators_daily = FlowDoneIndicators
    /\ sector_metrics_weekly = <<>>
    /\ sectors_enabled = {SectorTable[i].id : i \in 1..Len(SectorTable)}
    /\ feed \in {1, 2}
    /\ requests = <<>>
    /\ clock = 0
    /\ response = <<>>
    /\ steps = 0
    /\ RankIdle
    /\ IndIdle
    /\ ConcIdle
    /\ FnIdle
    /\ SchedIdle
    /\ EngIdle

\* app.post(route, ...) up to the await: the body is parsed; a thrown error
\* is answered with 400, otherwise the handler is called
ApiReceive ==
    \E c \in 1..Len(ApiCalls), key \in IdempotencyKeys :
        LET call == ApiCalls[c]
            parsed == ParseBody(call.route, call.body)
        IN  /\ Len(requests) < MaxRequests
            /\ clock' = clock + 1
            /\ requests' = Append(requests,
                  [route |-> call.route, key |-> key,
                   payload |-> IF parsed.ok THEN Some(parsed.value) ELSE Null,
                   receivedAt |-> clock + 1,
                   respondedAt |-> IF parsed.ok THEN 0 ELSE clock + 1,
                   status |-> IF parsed.ok THEN 0 ELSE 400,
                   json |-> IF parsed.ok THEN Null
                            ELSE Some([ok |-> FALSE, error |-> parsed.error]),
                   handlerRan |-> FALSE])
            /\ UNCHANGED <<tableVars, sectors_enabled, feed, response, steps,
                           rankVars, indVars, concVars, fnVars, schedVars, engVars>>

\* the handler of a waiting request runs and the route answers res.json
ApiRespond ==
    \E r \in 1..Len(requests) :
        /\ requests[r].respondedAt = 0
        /\ \E run \in {IF requests[r].route = "/api/jobs/daily-ingest"
                       THEN dailyIngest(price_bars_daily, feed, Val(requests[r].payload))
                       ELSE IF requests[r].route = "/api/jobs/compute-indicators"
                       THEN computeIndicators(price_bars_daily, indicators_daily,
                                              Val(requests[r].payload))
                       ELSE weeklySectorRank(price_bars_daily, indicators_daily,
                                sector_metrics_weekly, sectors_enabled,
                                Val(requests[r].payload))} :
              /\ price_bars_daily' = IF requests[r].route = "/api/jobs/daily-ingest"
                                     THEN run.price_bars_daily ELSE price_bars_daily
              /\ indicators_daily' = IF requests[r].route = "/api/jobs/compute-indicators"
                                     THEN run.indicators_daily ELSE indicators_daily
              /\ sector_metrics_weekly' =
                    IF requests[r].route = "/api/jobs/weekly-sector-rank"
                    THEN run.sector_metrics_weekly ELSE sector_metrics_weekly
              /\ requests' = [requests EXCEPT
                    ![r].respondedAt = clock + 1,
                    ![r].status = 200,
                    ![r].json = Some([ok |-> TRUE, data |-> run.result]),
                    ![r].handlerRan = TRUE]
        /\ clock' = clock + 1
        /\ UNCHANGED <<sectors_enabled, feed, response, steps,
                       rankVars, indVars, concVars, fnVars, schedVars, engVars>>

\* the handler of a waiting request throws before its write (no connection
\* string, the database or the data provider fails): the catch of the route
\* answers 400 with the error's message
ApiHandlerThrows ==
    \E r \in 1..Len(requests) :
        /\ requests[r].respondedAt = 0
        /\ requests' = [requests EXCEPT
              ![r].respondedAt = clock + 1,
              ![r].status = 400,
              ![r].json = Some([ok |-> FALSE, error |-> <<"handler", "failed">>]),
              ![r].handlerRan = TRUE]
        /\ clock' = clock + 1
        /\ UNCHANGED <<tableVars, sectors_enabled, feed, response, steps,
                       rankVars, indVars, concVars, fnVars, schedVars, engVars>>

ApiNext ==
    \/ ApiReceive
    \/ ApiRespond
    \/ ApiHandlerThrows

SpecApi == ApiInit /\ [][ApiNext]_vars

\* C10 (as stated): a request with a valid body whose Idempotency-Key was
\* already answered with success on the same route does not run the handler
\* again and is answered with the stored result or with 409; one whose key
\* is still being processed is answered with 409.
C10_KeyProcessedOnce ==
    \A i, j \in 1..Len(requests) :
        LET first == requests[i]
            second == requests[j]
        IN  (/\ first.key = second.key
             /\ first.route = second.route
             /\ first.receivedAt < second.receivedAt
             /\ ~IsNull(second.payload)
             /\ second.respondedAt > 0) =>
                /\ (first.status = 200 /\ first.respondedAt < second.receivedAt) =>
                      /\ ~second.handlerRan
                      /\ \/ second.status = 409
                         \/ second.status = 200 /\ second.json = first.json
                /\ (first.status # 400 /\ (first.respondedAt = 0
                                           \/ first.respondedAt > second.receivedAt)) =>
                      second.status = 409

\* C20 (as stated): a request whose body fails validation is answered 400
\* with ok=false and its handler is never invoked; a request with a valid
\* body is answered 200 with ok=true and the handler's result.
C20_StatusFollowsValidation ==
    \A r \in 1..Len(requests) :
        requests[r].respondedAt > 0 =>
            IF IsNull(requests[r].payload)
            THEN /\ requests[r].status = 400
                 /\ ~Val(requests[r].json).ok
                 /\ ~requests[r].handlerRan
            ELSE /\ requests[r].status = 200
                 /\ Val(requests[r].json).ok
                 /\ requests[r].handlerRan

(***************************************************************************)
(* Binary floating point.  computeZScore divides a sum by a count and      *)
(* compares a square root with 0: whether it returns exactly 0 depends on  *)
(* how the sum and the quotient are rounded.  A number is <<m, e>>, the    *)
(* value m * 2^e with FloatBits significant bits (0 is <<0, 0>>); every   *)
(* operation returns the exact result rounded to the nearest such number,  *)
(* ties to the even mantissa, as IEEE 754 does with 53 bits.               *)
(***************************************************************************)
FloatBits == 4

RECURSIVE Pow2(_)
Pow2(k) == IF k = 0 THEN 1 ELSE 2 * Pow2(k - 1)

\* num / den * 2^e for num, den > 0, rounded
RECURSIVE FloatNormalize(_, _, _)
FloatNormalize(num, den, e) ==
    IF num >= den * Pow2(FloatBits) THEN FloatNormalize(num, den * 2, e + 1)
    ELSE IF num < den * Pow2(FloatBits - 1) THEN FloatNormalize(num * 2, den, e - 1)
    ELSE LET q == num \div den
             r == num - q * den
             m == IF 2 * r > den \/ (2 * r = den /\ q % 2 = 1) THEN q + 1 ELSE q
         IN  IF m = Pow2(FloatBits) THEN <<Pow2(FloatBits - 1), e + 1>> ELSE <<m, e>>

FloatOf(num, den, e) ==
    IF num = 0 THEN <<0, 0>>
    ELSE IF num < 0
         THEN LET r == FloatNormalize(-num, den, e) IN <<-r[1], r[2]>>
         ELSE FloatNormalize(num, den, e)

FloatAdd(a, b) ==
    IF a[1] = 0 THEN b
    ELSE IF b[1] = 0 THEN a
    ELSE LET e == Min2(a[2], b[2])
         IN  FloatOf(a[1] * Pow2(a[2] - e) + b[1] * Pow2(b[2] - e), 1, e)

FloatSub(a, b) == FloatAdd(a, <<-b[1], b[2]>>)

FloatMul(a, b) == FloatOf(a[1] * b[1], 1, a[2] + b[2])

FloatDiv(a, b) ==
    IF b[1] < 0 THEN FloatOf(-a[1], -b[1], a[2] - b[2])
    ELSE FloatOf(a[1], b[1], a[2] - b[2])

\* Math.sqrt of a >= 0: the root of the mantissa with 2 * FloatBits more
\* bits, and one sticky bit that says whether it is exact
FloatSqrt(a) ==
    IF a[1] = 0 THEN <<0, 0>>
    ELSE LET odd == a[2] % 2 = 1
             m == IF odd THEN 2 * a[1] ELSE a[1]
             e == IF odd THEN a[2] - 1 ELSE a[2]
             scaled == m * Pow2(2 * FloatBits)
             r == Sqrt(scaled)
         IN  FloatOf(IF r * r = scaled THEN 2 * r ELSE 2 * r + 1, 2, (e \div 2) - FloatBits)

\* values.reduce((sum, value) => sum + value, 0) over the first count values
RECURSIVE FloatSum(_, _)
FloatSum(values, count) ==
    IF count = 0 THEN <<0, 0>>
    ELSE FloatAdd(FloatSum(values, count - 1), values[count])

\* computeZScore on doubles, each operation rounded
computeZScoreRounded(values) ==
    IF Len(values) < 2 THEN Null
    ELSE LET n == FloatOf(Len(values), 1, 0)
             mean == FloatDiv(FloatSum(values, Len(values)), n)
             squares == [i \in 1..Len(values) |->
                            FloatMul(FloatSub(values[i], mean), FloatSub(values[i], mean))]
             variance == FloatDiv(FloatSum(squares, Len(values)), n)
             std == FloatSqrt(variance)
             latest == values[Len(values)]
         IN  IF std[1] = 0 THEN Some(<<0, 0>>)
             ELSE Some(FloatDiv(FloatSub(latest, mean), std))

(***************************************************************************)
(* parseStooqCsv.  The text is given as what csv.trim().split('\n') makes  *)
(* of it: a list of lines, and a line as what split(',') makes of it: a    *)
(* list of fields.  A field is the text of a finite number, a word, the    *)
(* text Infinity, blanks only, or the empty string.                        *)
(***************************************************************************)
Field(kind, value) == [kind |-> kind, value |-> value]

\* "!field" for a destructured field: undefined (the line has fewer fields)
\* or the empty string
FieldFalsy(fields, k) == k > Len(fields) \/ fields[k].kind = "empty"

\* Number(text): blanks are skipped, so blank and empty text give 0; text
\* that is no numeric literal gives NaN
NumberOf(field) ==
    CASE field.kind = "number" -> [finite |-> TRUE, value |-> field.value]
      [] field.kind \in {"blank", "empty"} -> [finite |-> TRUE, value |-> 0]
      [] field.kind = "infinity" -> [finite |-> FALSE, value |-> "Infinity"]
      [] OTHER -> [finite |-> FALSE, value |-> "NaN"]

\* date.trim()
TrimField(field) == IF field.kind = "blank" THEN "" ELSE field.value

\* the loop over lines[1], ..., lines[upto - 1] (0-based)
RECURSIVE ParseLines(_, _, _)
ParseLines(symbol, lines, upto) ==
    IF upto < 2 THEN <<>>
    ELSE LET rows == ParseLines(symbol, lines, upto - 1)
             fields == lines[upto]
         IN  IF \E k \in 1..6 : FieldFalsy(fields, k) THEN rows
             ELSE LET parsed == [symbol |-> symbol,
                                 date |-> TrimField(fields[1]),
                                 open |-> NumberOf(fields[2]),
                                 high |-> NumberOf(fields[3]),
                                 low |-> NumberOf(fields[4]),
                                 close |-> NumberOf(fields[5]),
                                 volume |-> NumberOf(fields[6])]
                  IN  IF ~parsed.open.finite \/ ~parsed.close.finite THEN rows
                      ELSE Append(rows, parsed)

parseStooqCsv(symbol, lines) ==
    IF Len(lines) <= 1 THEN <<>> ELSE ParseLines(symbol, lines, Len(lines))

(***************************************************************************)
(* SpecFn: one call of a pure function of the service                      *)
(***************************************************************************)
MaxSeriesLen == 4        \* longest series handed to computeEma and computeZScore
MaxPeriod == 3           \* largest period handed to computeEma
MaxCsvRows == 2          \* data lines of the CSV text handed to parseStooqCsv
MaxMembers == 2          \* most members of the sector handed to computeSectorMetric

SeriesValues == {1, 2, 5}

SeriesOfLen(values, len) == [1..len -> values]

EmaInputs ==
    {[fn |-> "computeEma", values |-> values, period |-> period] :
        values \in UNION {SeriesOfLen(SeriesValues, len) : len \in 0..MaxSeriesLen}
                    \cup {<<1, 2, 3, 4, 5>>},
        period \in 1..MaxPeriod}

\* len bars with high 11 and low 9 that close at 10, but for the last one
AtrBars(len, lastClose, gap) ==
    [i \in 1..len |->
        [symbol |-> "SPY", date |-> i, open |-> 10,
         high |-> IF i = len THEN 11 + gap ELSE 11,
         low |-> IF i = len THEN 9 + gap ELSE 9,
         close |-> IF i = len THEN lastClose ELSE 10,
         volume |-> 100]]

AtrInputs ==
    {[fn |-> "computeAtrPct", bars |-> AtrBars(len, lastClose, gap), period |-> period] :
        len \in 0..(AtrPeriod + MaxSeriesLen), lastClose \in {-10, 0, 10},
        gap \in {0, 5}, period \in {2, AtrPeriod}}

ZScoreInputs ==
    {[fn |-> "computeZScore", values |-> [i \in 1..len |-> <<m, e>>]] :
        len \in 0..MaxSeriesLen, m \in Pow2(FloatBits - 1)..(Pow2(FloatBits) - 1),
        e \in {-1, 0}}
    \cup {[fn |-> "computeZScore", values |-> [i \in 1..len |-> FloatOf(i, 1, 0)]] :
            len \in 2..MaxSeriesLen + 1}

SlopeInputs ==
    {[fn |-> "computeSlope", values |-> values, n |-> Len(values)] :
        values \in UNION {SeriesOfLen(SeriesValues, len) : len \in 0..MaxSeriesLen}
                    \cup {<<1, 2, 3, 4>>, [i \in 1..SlopeWindow |-> 5]}}

\* the symbols sector members are drawn from
MemberPool == <<"AAPL", "MSFT", "NVDA", "SMH">>

\* count bars like those of the test: open 10, high 12, low 9, close 10
SectorBars(symbol, count) ==
    [i \in 1..count |->
        [symbol |-> symbol, date |-> i, open |-> 10, high |-> 12, low |-> 9,
         close |-> 10, volume |-> 100]]

\* the parameters of computeSectorMetric: the first len symbols of the pool
\* are the members; a member has an indicator row (ema21 100) or none and a
\* price row (close 80, 100 or 120) or none
SectorMetricInputs ==
    {[fn |-> "computeSectorMetric",
      params |-> [sectorId |-> "tech", etfSymbol |-> "XLK", benchmark |-> "SPY",
                  weekEndDate |-> 6,
                  etfBars |-> SectorBars("XLK", bars), benchBars |-> SectorBars("SPY", 6),
                  memberSymbols |-> SubSeq(MemberPool, 1, len),
                  indicatorRows |->
                      SeqFilter([k \in 1..len |-> [symbol |-> MemberPool[k], ema21 |-> ema[k]]],
                                LAMBDA row : row.ema21 > 0),
                  priceRows |->
                      SeqFilter([k \in 1..len |-> [symbol |-> MemberPool[k], close |-> close[k]]],
                                LAMBDA row : row.close > 0)]] :
        bars \in {5, 6},
        len \in 0..MaxMembers,
        ema \in [1..MaxMembers -> {0, 100 * Scale}],
        close \in [1..MaxMembers -> {0, 80, 100, 120}]}

CsvHeader ==
    <<Field("word", "Date"), Field("word", "Open"), Field("word", "High"), Field("word", "Low"),
      Field("word", "Close"), Field("word", "Volume")>>

CsvLines ==
    { <<Field("word", "2026-02-12"), Field("number", 10), Field("number", 12), Field("number", 9),
        Field("number", 11), Field("number", 100)>>,
      <<Field("word", "2026-02-13"), Field("number", 11), Field("number", 13), Field("number", 10),
        Field("number", 12), Field("number", 200)>>,
      <<Field("word", "2026-02-16"), Field("word", "n/a"), Field("number", 13), Field("number", 10),
        Field("number", 12), Field("number", 300)>>,
      <<Field("word", "2026-02-17"), Field("number", 11), Field("number", 13), Field("number", 10),
        Field("infinity", "Infinity"), Field("number", 300)>>,
      <<Field("word", "2026-02-18"), Field("number", 11), Field("number", 13), Field("number", 10),
        Field("number", 12)>>,
      <<Field("word", "2026-02-19"), Field("number", 11), Field("empty", ""), Field("number", 10),
        Field("number", 12), Field("number", 300)>>,
      <<Field("word", "2026-02-20"), Field("blank", " "), Field("number", 13), Field("number", 10),
        Field("number", 12), Field("number", 300)>>,
      <<Field("word", "2026-02-23"), Field("number", 11), Field("word", "n/a"), Field("number", 10),
        Field("number", 12), Field("number", 300)>> }

CsvInputs ==
    {[fn |-> "parseStooqCsv", symbol |-> "SPY", lines |-> <<CsvHeader>> \o rows] :
        rows \in UNION {SeriesOfLen(CsvLines, len) : len \in 0..MaxCsvRows}}
    \cup {[fn |-> "parseStooqCsv", symbol |-> "SPY", lines |-> << <<Field("empty", "")>> >>]}

FnInit ==
    /\ fnIn \in EmaInputs \cup AtrInputs \cup ZScoreInputs \cup CsvInputs \cup SlopeInputs
                \cup SectorMetricInputs
    /\ fnOut = <<>>
    /\ fnPc = "input"
    /\ RankIdle
    /\ IndIdle
    /\ DbIdle
    /\ ConcIdle
    /\ ApiIdle
    /\ SchedIdle
    /\ EngIdle

FnReturn(out) ==
    /\ fnPc = "input"
    /\ fnOut' = out
    /\ fnPc' = "returned"
    /\ UNCHANGED <<fnIn, rankVars, indVars, dbVars, concVars, apiVars, schedVars, engVars>>

CallComputeEma ==
    /\ fnIn.fn = "computeEma"
    /\ FnReturn(computeEma(fnIn.values, fnIn.period))

CallComputeAtrPct ==
    /\ fnIn.fn = "computeAtrPct"
    /\ FnReturn(computeAtrPct(fnIn.bars, fnIn.period))

CallComputeZScore ==
    /\ fnIn.fn = "computeZScore"
    /\ FnReturn(computeZScoreRounded(fnIn.values))

CallParseStooqCsv ==
    /\ fnIn.fn = "parseStooqCsv"
    /\ FnReturn(parseStooqCsv(fnIn.symbol, fnIn.lines))

CallComputeSlope ==
    /\ fnIn.fn = "computeSlope"
    /\ FnReturn(computeSlope(fnIn.values))

CallComputeSectorMetric ==
    /\ fnIn.fn = "computeSectorMetric"
    /\ FnReturn(computeSectorMetric(fnIn.params))

FnNext ==
    \/ CallComputeSectorMetric
    \/ CallComputeSlope
    \/ CallComputeEma
    \/ CallComputeAtrPct
    \/ CallComputeZScore
    \/ CallParseStooqCsv

SpecFn == FnInit /\ [][FnNext]_vars

FnReturned(fn) == fnPc = "returned" /\ fnIn.fn = fn

\* the EMA after the first n values, n >= period, by the textbook recurrence
RECURSIVE C11_ReferenceEma(_, _, _)
C11_ReferenceEma(values, period, n) ==
    IF n = period
    THEN (SumRange(values, 1, period) * Scale) \div period
    ELSE (2 * values[n] * Scale + (period - 1) * C11_ReferenceEma(values, period, n - 1))
            \div (period + 1)

\* C11: computeEma(values, p) is null for fewer than p values, and otherwise
\* the average of the first p values folded forward over the remaining ones
\* with ema := v * k + ema * (1 - k), k = 2 / (p + 1); exactly p values give
\* their average, and EMA(3) of 1, 2, 3, 4, 5 is 4.
C11_EmaIsReference ==
    FnReturned("computeEma") =>
        /\ fnOut = IF Len(fnIn.values) < fnIn.period THEN Null
                   ELSE Some(C11_ReferenceEma(fnIn.values, fnIn.period, Len(fnIn.values)))
        /\ Len(fnIn.values) = fnIn.period =>
              fnOut = Some((SumRange(fnIn.values, 1, fnIn.period) * Scale) \div fnIn.period)
        /\ (fnIn.values = <<1, 2, 3, 4, 5>> /\ fnIn.period = 3) => fnOut = Some(4 * Scale)

\* C11 witness: computeEma returned 4 for the series 1, 2, 3, 4, 5 and period 3.
C11_Witness ==
    /\ FnReturned("computeEma")
    /\ fnIn.values = <<1, 2, 3, 4, 5>>
    /\ fnIn.period = 3
    /\ fnOut = Some(4 * Scale)

\* C12 (as stated): computeAtrPct(bars, 14) is null for fewer than 15 bars,
\* and where it is defined it is not negative.
C12_AtrPctNonNegative ==
    (FnReturned("computeAtrPct") /\ fnIn.period = AtrPeriod) =>
        /\ Len(fnIn.bars) < AtrPeriod + 1 => IsNull(fnOut)
        /\ ~IsNull(fnOut) => Val(fnOut) >= 0

\* C13 (as stated): computeZScore is null for a series of fewer than 2
\* points and exactly 0 for every constant series of 2 or more points.
C13_ConstantSeriesIsZero ==
    FnReturned("computeZScore") =>
        /\ Len(fnIn.values) < 2 => IsNull(fnOut)
        /\ (/\ Len(fnIn.values) >= 2
            /\ \A i \in 1..Len(fnIn.values) : fnIn.values[i] = fnIn.values[1]) =>
              fnOut = Some(<<0, 0>>)

\* the data lines the claim keeps: six non-empty fields, open and close
\* numeric
C14_WellFormed(fields) ==
    /\ Len(fields) >= 6
    /\ \A k \in 1..6 : fields[k].kind # "empty"
    /\ fields[2].kind = "number"
    /\ fields[5].kind = "number"

\* C14 (as stated): parseStooqCsv drops every data line that lacks a field
\* or whose open or close is not numeric, and returns one bar for each other
\* line, in input order, each with a finite open and close; the two lines of
\* the test give 2 bars, the last with close 12 and volume 200.
C14_MalformedRowsDropped ==
    FnReturned("parseStooqCsv") =>
        LET kept == SelectSeq(SubSeq(fnIn.lines, 2, Len(fnIn.lines)), C14_WellFormed)
        IN  /\ Len(fnOut) = Len(kept)
            /\ \A i \in 1..Len(fnOut) :
                  /\ i <= Len(kept) => fnOut[i].date = kept[i][1].value
                  /\ fnOut[i].open.finite
                  /\ fnOut[i].close.finite
            /\ (/\ Len(fnIn.lines) = 3
                /\ fnIn.lines[2][1].value = "2026-02-12"
                /\ fnIn.lines[3][1].value = "2026-02-13") =>
                  /\ Len(fnOut) = 2
                  /\ fnOut[2].close.value = 12
                  /\ fnOut[2].volume.value = 200

\* the members that have both an indicator row and a price row
C27_Counted(params) ==
    {symbol \in Range(params.memberSymbols) :
        /\ \E row \in Range(params.indicatorRows) : row.symbol = symbol
        /\ \E row \in Range(params.priceRows) : row.symbol = symbol}

\* those of them whose close is above their EMA21
C27_Above(params) ==
    {symbol \in C27_Counted(params) :
        \E ind \in Range(params.indicatorRows), bar \in Range(params.priceRows) :
            /\ ind.symbol = symbol
            /\ bar.symbol = symbol
            /\ bar.close * Scale > ind.ema21}

\* C27: the breadth of a sector metric is above / total over the members
\* that have both a close and an EMA21 for the week-end date, above counting
\* close > EMA21 strictly; it is 0 when no member has both or there is no
\* member, and lies in [0, 1].
C27_BreadthIsFractionAbove ==
    (FnReturned("computeSectorMetric") /\ ~IsNull(fnOut)) =>
        /\ Val(fnOut).breadth_above_ema21 =
              IF C27_Counted(fnIn.params) = {} THEN 0
              ELSE (Cardinality(C27_Above(fnIn.params)) * Scale)
                        \div Cardinality(C27_Counted(fnIn.params))
        /\ Len(fnIn.params.memberSymbols) = 0 => Val(fnOut).breadth_above_ema21 = 0
        /\ Val(fnOut).breadth_above_ema21 \in 0..Scale

\* C27 witness: of two members with EMA21 100, one closed at 120 and one at
\* 100 (not above): the breadth returned is 0.5.
C27_Witness ==
    /\ FnReturned("computeSectorMetric")
    /\ ~IsNull(fnOut)
    /\ Len(fnIn.params.memberSymbols) = 2
    /\ Len(fnIn.params.indicatorRows) = 2
    /\ fnIn.params.priceRows = <<[symbol |-> "AAPL", close |-> 120],
                                 [symbol |-> "MSFT", close |-> 100]>>
    /\ 2 * Val(fnOut).breadth_above_ema21 = Scale

\* n * sum(x^2) - (sum x)^2 over x = 0..n-1
C30_Denominator(n) ==
    n * SumRange([i \in 1..n |-> (i - 1) * (i - 1)], 1, n)
        - SumRange([i \in 1..n |-> i - 1], 1, n) * SumRange([i \in 1..n |-> i - 1], 1, n)

\* C30: computeSlope returns null exactly for a series of fewer than 2
\* points; for n >= 2 the denominator over x = 0..n-1 is positive (it is
\* n^2 (n^2 - 1) / 12), and the slope of 1, 2, 3, 4 is 1.
C30_SlopeNullOnlyBelowTwo ==
    FnReturned("computeSlope") =>
        /\ IsNull(fnOut) <=> Len(fnIn.values) < 2
        /\ Len(fnIn.values) >= 2 =>
              /\ C30_Denominator(Len(fnIn.values)) > 0
              /\ 12 * C30_Denominator(Len(fnIn.values))
                    = Len(fnIn.values) * Len(fnIn.values)
                        * (Len(fnIn.values) * Len(fnIn.values) - 1)
        /\ fnIn.values = <<1, 2, 3, 4>> => fnOut = Some(1)

\* C30 witness: computeSlope returned 1 for the series 1, 2, 3, 4.
C30_Witness ==
    /\ FnReturned("computeSlope")
    /\ fnIn.values = <<1, 2, 3, 4>>
    /\ fnOut = Some(1)

(***************************************************************************)
(* SpecSched: the scheduler process.  main() runs one job (--run-job), one *)
(* flow (--flow daily|weekly) or the cron loop (--schedule true).  A step  *)
(* is what the process does between two awaits: every await of the         *)
(* scheduler is the await of a job request, so a step starts at the        *)
(* process start, at a firing of the interval timer or at the response to  *)
(* a request, and ends when the next request is sent or the activation     *)
(* ends.  The services are the environment: a request succeeds or fails.   *)
(***************************************************************************)
MaxTicks == 1            \* ticks of the cron loop that start a flow
MaxCronTicks == 3        \* the same, in SpecCron
MaxDays == 2             \* calendar days the cron loop lives through

JsonNull == [type |-> "null"]
JsNaN == [type |-> "number", notFinite |-> "NaN"]
JsInfinity == [type |-> "number", notFinite |-> "Infinity"]

\* Number(text) of an option value
OptionNumber(text) ==
    CASE text = "260" -> JsonNumber(260)
      [] text = "2" -> JsonNumber(2)
      [] text = "Infinity" -> JsInfinity
      [] OTHER -> JsNaN

\* JSON.stringify of a payload, a list of <<key, value>> in insertion order:
\* a number that is not finite is written as null
JsonStringify(payload) ==
    [i \in 1..Len(payload) |->
        <<payload[i][1],
          IF payload[i][2] \in {JsNaN, JsInfinity} THEN JsonNull ELSE payload[i][2]>>]

\* mutant: the payload is left out of the hash
buildIdempotencyKey_jobNameOnly(jobName, payload) == [sha256 |-> jobName \o <<":">>]

\* sha256 of `${jobName}:${JSON.stringify(payload)}`: the digest stands for
\* the text hashed (no two texts of the model collide)
buildIdempotencyKey(jobName, payload) ==
    [sha256 |-> jobName \o <<":", JsonStringify(payload)>>]

\* getUniverseSymbols(), shortened
UniverseSymbols == <<"SMH", "NVDA", "XBI", "SPY">>

\* parseCommaList and normalizeSymbols: items trimmed, empty ones dropped,
\* upper-cased, first occurrences kept
normalizeSymbols(symbols) ==
    LET NonEmpty(item) == item # ""
    IN  UniqueSymbols(SelectSeq(symbols, NonEmpty))

buildDailyFlow(args, today) ==
    LET asOfDate == IF IsNull(args.asOfDate) THEN today ELSE Val(args.asOfDate)
        symbols == normalizeSymbols(IF IsNull(args.symbols) THEN UniverseSymbols
                                    ELSE Val(args.symbols))
        list == JsonArray([i \in 1..Len(symbols) |-> JsonString(symbols[i])])
        force == args.force = Some("true")
        indicatorPayload ==
            << <<"asOfDate", JsonString(asOfDate)>>, <<"symbols", list>> >>
                \o IF IsNull(args.lookbackDays) THEN <<>>
                   ELSE << <<"lookbackDays", OptionNumber(Val(args.lookbackDays))>> >>
    IN  << [service |-> "market-data", path |-> "/api/jobs/daily-ingest",
            payload |-> << <<"asOfDate", JsonString(asOfDate)>>, <<"symbols", list>>,
                           <<"force", JsonBool(force)>> >>,
            idempotencyKey |-> Null],
           [service |-> "market-data", path |-> "/api/jobs/compute-indicators",
            payload |-> indicatorPayload,
            idempotencyKey |-> Null] >>

buildWeeklyFlow(args, today) ==
    LET weekEndDate == IF IsNull(args.weekEndDate) THEN today ELSE Val(args.weekEndDate)
        benchmark == IF IsNull(args.benchmark) THEN "QQQ" ELSE Val(args.benchmark)
    IN  << [service |-> "market-data", path |-> "/api/jobs/weekly-sector-rank",
            payload |-> << <<"weekEndDate", JsonString(weekEndDate)>>,
                           <<"benchmark", JsonString(benchmark)>> >>
                        \o IF IsNull(args.topN) THEN <<>>
                           ELSE << <<"topN", OptionNumber(Val(args.topN))>> >>,
            idempotencyKey |-> Null] >>

parseRunJob(args) ==
    [service |-> args.runJob[1], path |-> args.runJob[2],
     payload |-> IF IsNull(args.payloadJson) THEN <<>> ELSE Val(args.payloadJson),
     idempotencyKey |-> args.idempotencyKey]

\* runJob up to its await: the request as it is sent
runJob(job, act, flow, seq, at, today) ==
    [act |-> act, flow |-> flow, seq |-> seq,
     service |-> job.service, path |-> job.path, payload |-> job.payload,
     body |-> JsonStringify(job.payload),
     headers |-> [h \in {"Idempotency-Key"} |->
                    IF IsNull(job.idempotencyKey)
                    THEN buildIdempotencyKey(<<job.service, ":", job.path>>, job.payload)
                    ELSE [text |-> Val(job.idempotencyKey)]],
     outcome |-> "pending", sentAt |-> at, doneAt |-> 0, day |-> today]

\* mutant: the status of the response is not looked at
JobResolved_always(outcome) == TRUE

\* requestJson resolves (status < 400 and a JSON body), otherwise it rejects
JobResolved(outcome) == outcome = "ok"

\* the command lines of the model, as parseArgs returns them
NoArgs ==
    [mode |-> "flow", flow |-> "daily", runJob |-> <<>>, payloadJson |-> Null,
     idempotencyKey |-> Null, asOfDate |-> Null, symbols |-> Null, force |-> Null,
     lookbackDays |-> Null, weekEndDate |-> Null, benchmark |-> Null, topN |-> Null]

IngestPayload(day) ==
    << <<"asOfDate", JsonString(day)>>,
       <<"symbols", JsonArray(<<JsonString("SPY")>>)>>, <<"force", JsonBool(FALSE)>> >>

SchedArgs ==
    {[NoArgs EXCEPT !.lookbackDays = lookbackDays, !.idempotencyKey = key] :
        lookbackDays \in {Null, Some("260"), Some("abc"), Some("Infinity")},
        key \in {Null, Some("my-key")}}
    \cup {[NoArgs EXCEPT !.asOfDate = Some(1), !.symbols = Some(<<"spy", "", "SPY", "NVDA">>),
                         !.force = Some("true")],
          [NoArgs EXCEPT !.flow = "weekly"],
          [NoArgs EXCEPT !.flow = "weekly", !.weekEndDate = Some(1),
                         !.benchmark = Some("SPY"), !.topN = Some("2")],
          [NoArgs EXCEPT !.mode = "schedule"]}
    \cup {[NoArgs EXCEPT !.mode = "run-job", !.runJob = <<"market-data", path>>,
                         !.payloadJson = payload, !.idempotencyKey = key] :
            path \in {"/api/jobs/daily-ingest", "/api/jobs/compute-indicators"},
            payload \in {Null, Some(IngestPayload(1)), Some(IngestPayload(2))},
            key \in {Null, Some("my-key")}}

\* the process before main(); the cron loop starts on day 1 and lives
\* through ticks firings of its timer
SchedStart(args, today, ticks) ==
    [args |-> args, day |-> today, clock |-> 0, exit |-> "starting",
     interval |-> FALSE, lastDailyKey |-> 0, lastWeeklyKey |-> 0,
     acts |-> <<>>, ticks |-> ticks]

SchedInit ==
    /\ \E args \in SchedArgs, today \in 1..MaxDays :
          /\ args.mode = "schedule" => today = 1
          /\ sched = SchedStart(args, today, MaxTicks)
    /\ sent = <<>>
    /\ RankIdle
    /\ IndIdle
    /\ DbIdle
    /\ ConcIdle
    /\ ApiIdle
    /\ FnIdle
    /\ EngIdle

\* the start of tick(): the cron expressions are matched against now, the
\* day key of a flow that is due is recorded, and the flow's first job is
\* requested; a tick on which no flow is due returns at once and leaves
\* nothing behind
TickStart(kind, now) ==
    LET daily == now.dailyDue /\ sched.lastDailyKey # now.day
        weekly == now.weeklyDue /\ sched.lastWeeklyKey # now.day
        flow == IF daily THEN "daily" ELSE IF weekly THEN "weekly" ELSE "none"
        jobs == IF daily THEN buildDailyFlow(sched.args, now.day)
                ELSE IF weekly THEN buildWeeklyFlow(sched.args, now.day)
                ELSE <<>>
        act == Len(sched.acts) + 1
    IN  /\ sched' = [sched EXCEPT
                !.day = now.day,
                !.clock = IF flow = "none" THEN @ ELSE @ + 1,
                !.exit = "running",
                !.interval = @ \/ (kind = "first" /\ flow = "none"),
                !.lastDailyKey = IF daily THEN now.day ELSE @,
                !.lastWeeklyKey = IF ~daily /\ weekly THEN now.day ELSE @,
                !.acts = IF flow = "none" THEN @
                         ELSE Append(@, [kind |-> kind, now |-> now, flow |-> flow,
                                         jobs |-> jobs, next |-> 1,
                                         state |-> "awaiting"])]
        /\ sent' = IF flow = "none" THEN sent
                   ELSE Append(sent, runJob(jobs[1], act, flow, 1, sched.clock + 1, now.day))

\* main(): the first step of the process
SchedMain ==
    /\ sched.exit = "starting"
    /\ IF sched.args.mode = "schedule"
       THEN \E dailyDue, weeklyDue \in BOOLEAN :
                TickStart("first", [day |-> sched.day, dailyDue |-> dailyDue,
                                    weeklyDue |-> weeklyDue])
       ELSE LET flow == IF sched.args.mode = "run-job" THEN "job" ELSE sched.args.flow
                jobs == IF sched.args.mode = "run-job" THEN <<parseRunJob(sched.args)>>
                        ELSE IF flow = "daily" THEN buildDailyFlow(sched.args, sched.day)
                        ELSE buildWeeklyFlow(sched.args, sched.day)
            IN  /\ sched' = [sched EXCEPT
                        !.clock = @ + 1,
                        !.exit = "running",
                        !.acts = <<[kind |-> "main",
                                    now |-> [day |-> sched.day, dailyDue |-> FALSE,
                                             weeklyDue |-> FALSE],
                                    flow |-> flow, jobs |-> jobs, next |-> 1,
                                    state |-> "awaiting"]>>]
                /\ sent' = <<runJob(jobs[1], 1, flow, 1, sched.clock + 1, sched.day)>>
    /\ UNCHANGED <<rankVars, indVars, dbVars, concVars, apiVars, fnVars, engVars>>

\* setInterval fires: a new tick() starts, whatever earlier ticks still await
SchedTick ==
    /\ sched.exit = "running"
    /\ sched.interval
    /\ Len(sched.acts) < sched.ticks
    /\ \E today \in {sched.day, Min2(sched.day + 1, MaxDays)},
          dailyDue, weeklyDue \in BOOLEAN :
            TickStart("interval", [day |-> today, dailyDue |-> dailyDue,
                                   weeklyDue |-> weeklyDue])
    /\ UNCHANGED <<rankVars, indVars, dbVars, concVars, apiVars, fnVars, engVars>>

\* the response to request k arrives and the awaiting activation goes on:
\* with the next job of the flow, with the weekly flow of the same tick, or
\* to its end; a rejected request ends it, and ends the process unless the
\* activation is a tick of the interval timer
SchedResponse(k, outcome) ==
    /\ sched.exit = "running"
    /\ sent[k].outcome = "pending"
    /\ LET a == sent[k].act
           mine == sched.acts[a]
           answered == [sent EXCEPT ![k].outcome = outcome, ![k].doneAt = sched.clock + 1]
           weeklyNow == /\ mine.kind # "main"
                        /\ mine.flow = "daily"
                        /\ mine.now.weeklyDue
                        /\ sched.lastWeeklyKey # mine.now.day
           weeklyJobs == buildWeeklyFlow(sched.args, sched.day)
       IN  IF ~JobResolved(outcome)
           THEN /\ sched' = [sched EXCEPT
                        !.clock = @ + 1,
                        !.acts[a].state = "threw",
                        !.exit = IF mine.kind = "interval" THEN @ ELSE "exit1"]
                /\ sent' = answered
           ELSE IF mine.next < Len(mine.jobs)
           THEN /\ sched' = [sched EXCEPT !.clock = @ + 1, !.acts[a].next = @ + 1]
                /\ sent' = Append(answered,
                                  runJob(mine.jobs[mine.next + 1], a, mine.flow,
                                         mine.next + 1, sched.clock + 1, sched.day))
           ELSE IF weeklyNow
           THEN /\ sched' = [sched EXCEPT
                        !.clock = @ + 1,
                        !.lastWeeklyKey = mine.now.day,
                        !.acts[a] = [mine EXCEPT !.flow = "weekly", !.jobs = weeklyJobs,
                                                 !.next = 1]]
                /\ sent' = Append(answered,
                                  runJob(weeklyJobs[1], a, "weekly", 1,
                                         sched.clock + 1, sched.day))
           ELSE /\ sched' = [sched EXCEPT
                        !.clock = @ + 1,
                        !.acts[a].state = "ended",
                        !.interval = @ \/ mine.kind = "first",
                        !.exit = IF mine.kind = "main" THEN "exit0" ELSE @]
                /\ sent' = answered
    /\ UNCHANGED <<rankVars, indVars, dbVars, concVars, apiVars, fnVars, engVars>>

SchedJobSucceeds == \E k \in 1..Len(sent) : SchedResponse(k, "ok")

SchedJobFails == \E k \in 1..Len(sent) : SchedResponse(k, "failed")

SchedNext ==
    \/ SchedMain
    \/ SchedTick
    \/ SchedJobSucceeds
    \/ SchedJobFails

SpecSched == SchedInit /\ [][SchedNext]_vars

\* SpecCron: the process started with --schedule only, with custom cron
\* expressions or the default ones
CronInit ==
    /\ sched = SchedStart([NoArgs EXCEPT !.mode = "schedule"], 1, MaxCronTicks)
    /\ sent = <<>>
    /\ RankIdle
    /\ IndIdle
    /\ DbIdle
    /\ ConcIdle
    /\ ApiIdle
    /\ FnIdle
    /\ EngIdle

SpecCron == CronInit /\ [][SchedNext]_vars

\* the jobs the command lines of the model make the scheduler run without
\* an explicit key, on any day
C17_Jobs ==
    UNION {Range(buildDailyFlow(args, today)) \cup Range(buildWeeklyFlow(args, today))
            \cup (IF args.mode = "run-job"
                  THEN {[parseRunJob(args) EXCEPT !.idempotencyKey = Null]} ELSE {}) :
           args \in SchedArgs, today \in 1..MaxDays}

C17_KeyOf(job) == runJob(job, 0, "", 0, 0, 0).headers["Idempotency-Key"]

C18_SameRun(j, k) == sent[j].act = sent[k].act /\ sent[j].flow = sent[k].flow

\* C18: within one run of a flow a job is requested only after the job
\* before it was answered with success (compute-indicators only after
\* daily-ingest), no two requests are in flight together, and after a failed
\* request no later job of the flow is requested.
C18_FlowInOrder ==
    \A k \in 1..Len(sent) :
        /\ sent[k].seq > 1 =>
              \E j \in 1..Len(sent) :
                  /\ C18_SameRun(j, k)
                  /\ sent[j].seq = sent[k].seq - 1
                  /\ sent[j].outcome = "ok"
                  /\ sent[j].doneAt <= sent[k].sentAt
        /\ (sent[k].flow = "daily" /\ sent[k].path = "/api/jobs/compute-indicators") =>
              \E j \in 1..Len(sent) :
                  /\ C18_SameRun(j, k)
                  /\ sent[j].path = "/api/jobs/daily-ingest"
                  /\ sent[j].outcome = "ok"
                  /\ sent[j].doneAt <= sent[k].sentAt
        /\ \A j \in 1..Len(sent) :
              (C18_SameRun(j, k) /\ j # k) =>
                  /\ ~(sent[j].outcome = "pending" /\ sent[k].outcome = "pending")
                  /\ sent[j].sentAt < sent[k].sentAt =>
                        (sent[j].outcome # "pending" /\ sent[j].doneAt <= sent[k].sentAt)
                  /\ sent[j].outcome = "failed" => sent[k].seq < sent[j].seq

\* C18 witness: in a daily flow daily-ingest succeeded, compute-indicators
\* was requested after it and failed, and the flow ended there.
C18_Witness ==
    /\ Len(sent) = 2
    /\ sent[1].path = "/api/jobs/daily-ingest"
    /\ sent[1].outcome = "ok"
    /\ sent[2].path = "/api/jobs/compute-indicators"
    /\ sent[2].sentAt >= sent[1].doneAt
    /\ sent[2].outcome = "failed"
    /\ sched.acts[1].state = "threw"

\* C19 (as stated): a failed job of a scheduled flow is requested again: once
\* the process has ended or the day of the failure is over, a later request
\* for the same job exists.
C19_FailedJobRetried ==
    \A k \in 1..Len(sent) :
        (/\ sent[k].flow \in {"daily", "weekly"}
         /\ sent[k].outcome = "failed"
         /\ (sched.exit \in {"exit0", "exit1"} \/ sched.day > sent[k].day)) =>
            \E j \in 1..Len(sent) :
                /\ sent[j].sentAt > sent[k].doneAt
                /\ sent[j].service = sent[k].service
                /\ sent[j].path = sent[k].path

\* the requests that start a flow of the cron loop: the first job of flow,
\* sent by a tick whose day key is key
C28_FlowStarts(flow, key) ==
    {k \in 1..Len(sent) :
        /\ sent[k].seq = 1
        /\ sent[k].flow = flow
        /\ sched.acts[sent[k].act].kind # "main"
        /\ sched.acts[sent[k].act].now.day = key}

\* C28: in the cron loop a flow is started at most once per day key, however
\* many ticks match its cron expression and however the ticks overlap.
C28_FlowOncePerDayKey ==
    \A flow \in {"daily", "weekly"}, key \in 1..MaxDays :
        Cardinality(C28_FlowStarts(flow, key)) <= 1

(***************************************************************************)
(* The decision engine, the risk engine, the paper positions and the       *)
(* alerts.  The repository documents them (docs/README ... FULL_SPEC.md,   *)
(* "Decision Engine Rules", "Risk Engine (Shares)", the state diagrams and *)
(* "Alerts") and declares their tables (the migrations), and this part     *)
(* follows that documentation.  One symbol is evaluated per run.           *)
(* Prices are whole numbers of 1/PriceUnit dollar, the percentages of the  *)
(* settings whole percents.                                                *)
(***************************************************************************)
MaxRuns == 3            \* evaluations of the symbol
MaxDigests == 1         \* weekly digests
PriceUnit == 10
InflowSectorTopN == 2       \* inflow_sector_top_n
RiskPerTradePct == 1        \* risk_per_trade_pct = 0.01
MaxPositionPct == 20        \* max_position_pct = 0.20
MinConviction == 75         \* the AI gate: conviction >= 75
SellConviction == 60        \* SELL: a new score with conviction < 60
TrimGainPct == 25           \* TRIM: +25% from entry
TrimWindow == 10            \* ... within 10 trading days
AddGainPct == 5             \* ADD: price >= entry * 1.05
Ema21SellCloses == 3        \* SELL: close < EMA21 for 3 consecutive sessions
EngineSymbol == "NVDA"

\* columns state of table paper_positions: table.enu('state', ['open', 'closed'])
PaperPositionStates == {"open", "closed"}

\* a symbol without a row in paper_positions is FLAT
FlatPosition ==
    [symbol |-> EngineSymbol, state |-> "flat", shares |-> 0, avg_entry |-> 0,
     stop_price |-> 0, opened_at |-> 0, closed_at |-> Null]

\* the position of a symbol as the table holds it
PositionOf(table, symbol) ==
    IF Rows(table, symbol) = <<>> THEN FlatPosition ELSE table[symbol][1]

\* the position is held: it has shares that a SELL, an ADD or a TRIM acts on
IsLive(position) == position.state \in {"open", "trimmed"}

\* Share Calculation: the risk budget ignoring the position cap
computeRiskShares_riskOnly(args) ==
    LET risk_per_share == args.entry_price - args.stop_price
        shares == IF risk_per_share <= 0 THEN 0
                  ELSE (args.equity_usd * PriceUnit * args.risk_per_trade_pct)
                           \div (100 * risk_per_share)
    IN  IF risk_per_share <= 0 \/ shares < 1
        THEN [ok |-> FALSE, shares |-> 0, error |-> "RiskRejected"]
        ELSE [ok |-> TRUE, shares |-> shares, error |-> "none"]

\* Share Calculation:
\*   risk_dollars = equity_usd * risk_per_trade_pct
\*   risk_per_share = entry_price - stop_price
\*   shares_risk = floor(risk_dollars / risk_per_share)
\*   max_position_dollars = equity_usd * max_position_pct
\*   shares_cap = floor(max_position_dollars / entry_price)
\*   shares = min(shares_risk, shares_cap)
\*   Reject trade if risk_per_share <= 0 or shares < 1
computeRiskShares(args) ==
    LET risk_per_share == args.entry_price - args.stop_price
        shares_risk == IF risk_per_share <= 0 THEN 0
                       ELSE (args.equity_usd * PriceUnit * args.risk_per_trade_pct)
                                \div (100 * risk_per_share)
        shares_cap == IF args.entry_price <= 0 THEN 0
                      ELSE (args.equity_usd * PriceUnit * args.max_position_pct)
                               \div (100 * args.entry_price)
        shares == IF shares_risk < shares_cap THEN shares_risk ELSE shares_cap
    IN  IF risk_per_share <= 0 \/ shares < 1
        THEN [ok |-> FALSE, shares |-> 0, error |-> "RiskRejected"]
        ELSE [ok |-> TRUE, shares |-> shares, error |-> "none"]

\* the arguments of computeRiskShares for an entry under the settings
RiskArgs(settings, features) ==
    [entry_price |-> features.entry_price, stop_price |-> features.stop_price,
     equity_usd |-> settings.equity_usd,
     risk_per_trade_pct |-> RiskPerTradePct, max_position_pct |-> MaxPositionPct]

\* the AI gate on the growth phase alone
isAiOk_phaseOnly(s) ==
    /\ s # Null
    /\ s[1].growth_phase \in {"early_acceleration", "strong_acceleration"}

\* AI gate: growth_phase in {early_acceleration, strong_acceleration} and
\* conviction >= 75, of a score that exists
isAiOk(s) ==
    /\ s # Null
    /\ s[1].growth_phase \in {"early_acceleration", "strong_acceleration"}
    /\ s[1].conviction >= MinConviction

\* the gates of BUY other than the AI gate
BuyGatesButAi(features) ==
    /\ features.regime = "RISK_ON"
    /\ features.sector_rank <= InflowSectorTopN
    /\ features.trend_confirmed

\* BUY if all true: regime RISK_ON, sector rank within the top N, trend
\* confirmed, and the AI gate when require_ai_for_buy
BuyCondition(settings, features) ==
    /\ BuyGatesButAi(features)
    /\ (settings.require_ai_for_buy => isAiOk(features.ai))

\* WATCH: in an inflow sector and the AI gate passes, but the trend is not
\* confirmed or the regime is not RISK_ON; and a BUY whose AI score is missing
\* while require_ai_for_buy is downgraded to WATCH
WatchCondition(settings, features) ==
    \/ /\ features.sector_rank <= InflowSectorTopN
       /\ (settings.require_ai_for_buy => isAiOk(features.ai))
       /\ (~features.trend_confirmed \/ features.regime # "RISK_ON")
    \/ /\ settings.require_ai_for_buy
       /\ features.ai = Null
       /\ BuyGatesButAi(features)

\* the paper stop of the position is breached
StopBreached(features, position) == features.price <= position.stop_price

\* SELL when any: stop breached, close < EMA21 for 3 consecutive sessions,
\* a new AI score with conviction < 60 or growth_phase decelerating
SellCondition(features, position) ==
    \/ StopBreached(features, position)
    \/ features.closes_below_ema21 >= Ema21SellCloses
    \/ /\ features.ai # Null
       /\ (features.ai[1].conviction < SellConviction
            \/ features.ai[1].growth_phase = "decelerating")

\* TRIM when +25% from entry within 10 trading days
TrimCondition(features, position) ==
    /\ (features.price - position.avg_entry) * 100 >= TrimGainPct * position.avg_entry
    /\ features.sessions_held <= TrimWindow

\* ADD when price >= entry * 1.05, still above EMA21, regime RISK_ON and the
\* sector still inflow, and the position after the add is within
\* max_position_pct; the diagram of the position adds to an OPEN position
AddCondition(settings, features, position) ==
    /\ position.state = "open"
    /\ features.price * 100 >= position.avg_entry * (100 + AddGainPct)
    /\ features.closes_below_ema21 = 0
    /\ features.regime = "RISK_ON"
    /\ features.sector_rank <= InflowSectorTopN
    /\ (position.shares + features.add_shares) * features.price
           <= (settings.equity_usd * PriceUnit * MaxPositionPct) \div 100

\* the verdicts with ADD and TRIM looked at before the SELL conditions
decide_heldFirst(settings, features, position) ==
    IF IsLive(position)
    THEN LET held == {v \in {"ADD", "TRIM"} :
                         \/ v = "ADD" /\ AddCondition(settings, features, position)
                         \/ v = "TRIM" /\ TrimCondition(features, position)}
         IN  IF held # {} THEN held
             ELSE IF SellCondition(features, position) THEN {"SELL"} ELSE {"NONE"}
    ELSE IF BuyCondition(settings, features) THEN {"BUY"}
         ELSE IF WatchCondition(settings, features) THEN {"WATCH"}
         ELSE {"NONE"}

\* the verdicts the rules allow for the symbol in one run, of which the engine
\* emits one: the SELL conditions first, then ADD and TRIM against a held
\* position (their order is not documented), then BUY and WATCH for a symbol
\* without a position
decide(settings, features, position) ==
    IF IsLive(position)
    THEN IF SellCondition(features, position) THEN {"SELL"}
         ELSE LET held == {v \in {"ADD", "TRIM"} :
                              \/ v = "ADD" /\ AddCondition(settings, features, position)
                              \/ v = "TRIM" /\ TrimCondition(features, position)}
              IN  IF held = {} THEN {"NONE"} ELSE held
    ELSE IF BuyCondition(settings, features) THEN {"BUY"}
         ELSE IF WatchCondition(settings, features) THEN {"WATCH"}
         ELSE {"NONE"}

\* TRIM sells 50% of the shares, rounded up
TrimShares_roundUp(shares) == (shares + 1) \div 2

\* TRIM sells 50% of the shares; shares are whole (column shares is an integer)
TrimShares(shares) == shares \div 2

\* the fill of the paper order of a verdict: BUY opens the position with the
\* sized shares, ADD increases the shares and recomputes avg_entry, TRIM
\* reduces the shares, SELL and a stop hit close the position
applyFill(position, fill, features, shares, now) ==
    CASE fill = "BUY" ->
            [symbol |-> position.symbol, state |-> "open", shares |-> shares,
             avg_entry |-> features.entry_price, stop_price |-> features.stop_price,
             opened_at |-> now, closed_at |-> Null]
      [] fill = "ADD" ->
            [position EXCEPT
                !.shares = @ + features.add_shares,
                !.avg_entry = (position.shares * @ + features.add_shares * features.price)
                                  \div (position.shares + features.add_shares)]
      [] fill = "TRIM" ->
            [position EXCEPT !.state = "trimmed", !.shares = @ - TrimShares(@)]
      [] fill \in {"SELL", "STOP_HIT"} ->
            [position EXCEPT !.state = "closed", !.shares = 0, !.closed_at = Some(now)]
      [] OTHER -> position

\* the paper order a verdict fills
FillOf(verdict, features, position) ==
    CASE verdict = "SELL" -> IF StopBreached(features, position) THEN "STOP_HIT" ELSE "SELL"
      [] verdict \in {"BUY", "ADD", "TRIM"} -> verdict
      [] OTHER -> "NONE"

\* the value of column state for a position: the column tells a held position
\* ('open') from a closed one and has no value for a trimmed one
StoredState(state) == IF state \in PaperPositionStates THEN state ELSE "open"

\* the write of a position row: symbol is the primary key of the table, so
\* the row of the symbol is replaced where there is one
WritePosition(table, row) ==
    UpsertRow(table, row.symbol, [row EXCEPT !.state = StoredState(@)])

\* alerts also for a WATCH
AlertWorthy_withWatch(signal_type) == signal_type \in {"BUY", "SELL", "ADD", "TRIM", "WATCH"}

\* Send alerts only on transitions: BUY, SELL/STOP, ADD, TRIM created
AlertWorthy(signal_type) == signal_type \in {"BUY", "SELL", "ADD", "TRIM"}

\* the states the alert machine passes through for a transition of kind kind,
\* from QUIET and back; it stays QUIET where nothing is to be sent
AlertPath(worthy, kind) ==
    IF worthy
    THEN <<"QUIET",
           CASE kind = "BUY" -> "ALERT_BUY"
             [] kind = "SELL" -> "ALERT_SELL"
             [] kind = "ADD" -> "ALERT_ADD"
             [] kind = "TRIM" -> "ALERT_TRIM"
             [] OTHER -> "ALERT_DIGEST",
           "QUIET">>
    ELSE <<"QUIET">>

\* the states of the alert machine other than QUIET
AlertStates == {"ALERT_BUY", "ALERT_SELL", "ALERT_ADD", "ALERT_TRIM", "ALERT_DIGEST"}

\* the alerts sent, counted by the state that sent them, after the machine
\* has run along path
emitAlert(alerts, path) ==
    IF Len(path) = 3 THEN [alerts EXCEPT ![path[2]] = @ + 1] ELSE alerts

\* the AI scores a run may find for the symbol, Null for none
AiScores ==
    {Null,
     Some([growth_phase |-> "early_acceleration", conviction |-> 80]),
     Some([growth_phase |-> "early_acceleration", conviction |-> 70]),
     Some([growth_phase |-> "decelerating", conviction |-> 80])}

\* entry and stop prices of a symbol without a position: the documented
\* example (310 with the stop at 272.8), a share that the position cap allows
\* once and the risk budget twice, a stop at the entry, and a share that costs
\* more than the position cap
EntryQuotes ==
    {[entry_price |-> 310 * PriceUnit, stop_price |-> (2728 * PriceUnit) \div 10],
     [entry_price |-> 15000 * PriceUnit, stop_price |-> 14500 * PriceUnit],
     [entry_price |-> 100 * PriceUnit, stop_price |-> 100 * PriceUnit],
     [entry_price |-> 30000 * PriceUnit, stop_price |-> 26400 * PriceUnit]}

\* what a run may find for a held position: the gain on avg_entry in percent,
\* the sessions since the entry and the shares an ADD would buy
HoldingQuotes ==
    {[gain_pct |-> -15, sessions_held |-> 5, add_shares |-> 1],
     [gain_pct |-> 0, sessions_held |-> 5, add_shares |-> 1],
     [gain_pct |-> 5, sessions_held |-> 5, add_shares |-> 1],
     [gain_pct |-> 5, sessions_held |-> 5, add_shares |-> 1000],
     [gain_pct |-> 25, sessions_held |-> 5, add_shares |-> 1],
     [gain_pct |-> 25, sessions_held |-> 11, add_shares |-> 1]}

\* the inputs a run may find for the symbol, given its position
FeatureSets(position) ==
    IF IsLive(position)
    THEN {[regime |-> regime, sector_rank |-> rank, trend_confirmed |-> TRUE, ai |-> ai,
           price |-> (position.avg_entry * (100 + q.gain_pct)) \div 100,
           closes_below_ema21 |-> below, sessions_held |-> q.sessions_held,
           add_shares |-> q.add_shares, entry_price |-> 0, stop_price |-> 0] :
              regime \in {"RISK_ON", "RISK_OFF"}, rank \in {1, InflowSectorTopN + 1},
              ai \in AiScores, q \in HoldingQuotes, below \in {0, Ema21SellCloses}}
    ELSE {[regime |-> regime, sector_rank |-> rank, trend_confirmed |-> trend, ai |-> ai,
           price |-> q.entry_price, closes_below_ema21 |-> 0, sessions_held |-> 0,
           add_shares |-> 0, entry_price |-> q.entry_price, stop_price |-> q.stop_price] :
              regime \in {"RISK_ON", "RISK_OFF"}, rank \in {1, InflowSectorTopN + 1},
              trend \in BOOLEAN, ai \in AiScores, q \in EntryQuotes}

\* one evaluation of the symbol: the verdict, the sizing of a BUY, the fill of
\* the paper order, the signal and the alert
evaluate(eng, positions, sigs, features, verdict) ==
    LET now == eng.run + 1
        before == PositionOf(positions, EngineSymbol)
        sizing == IF verdict = "BUY" THEN computeRiskShares(RiskArgs(eng.settings, features))
                  ELSE [ok |-> TRUE, shares |-> 0, error |-> "none"]
        fill == IF sizing.ok THEN FillOf(verdict, features, before) ELSE "NONE"
        after == applyFill(before, fill, features, sizing.shares, now)
        emitted == IF sizing.ok THEN verdict ELSE "NONE"
        path == AlertPath(AlertWorthy(emitted), emitted)
        sent_at == IF Len(path) = 3 THEN Some(now) ELSE Null
    IN  [positions |-> IF fill = "NONE" THEN positions ELSE WritePosition(positions, after),
         signals |-> IF emitted = "NONE" THEN sigs
                     ELSE Append(sigs, [created_at |-> now, symbol |-> EngineSymbol,
                                        signal_type |-> emitted, sent_at |-> sent_at]),
         engine |-> [eng EXCEPT
                        !.run = now,
                        !.alerts = emitAlert(@, path),
                        !.alert_state = path[Len(path)],
                        !.last = <<[features |-> features, verdict |-> verdict,
                                    allowed |-> decide(eng.settings, features, before),
                                    sizing |-> sizing, fill |-> fill, before |-> before,
                                    after |-> after,
                                    emitted |-> emitted, alert_path |-> path]>>]]

\* the settings of an engine
EngineSettings ==
    {[equity_usd |-> 100000, require_ai_for_buy |-> require] : require \in BOOLEAN}

EngineInit ==
    /\ paper_positions = <<>>
    /\ signals = <<>>
    /\ \E settings \in EngineSettings :
           engine = [settings |-> settings, run |-> 0,
                     alerts |-> [state \in AlertStates |-> 0],
                     alert_state |-> "QUIET", digests |-> 0, last |-> <<>>]
    /\ RankIdle
    /\ IndIdle
    /\ DbIdle
    /\ ConcIdle
    /\ ApiIdle
    /\ FnIdle
    /\ SchedIdle

\* a run of the decision engine for the symbol
EngineRun ==
    /\ engine.run < MaxRuns
    /\ \E features \in FeatureSets(PositionOf(paper_positions, EngineSymbol)) :
       \E verdict \in decide(engine.settings, features,
                             PositionOf(paper_positions, EngineSymbol)) :
       \E run \in {evaluate(engine, paper_positions, signals, features, verdict)} :
           /\ paper_positions' = run.positions
           /\ signals' = run.signals
           /\ engine' = run.engine
    /\ UNCHANGED <<rankVars, indVars, dbVars, concVars, apiVars, fnVars, schedVars>>

\* the weekly digest is sent
WeeklyDigest ==
    /\ engine.digests < MaxDigests
    /\ LET path == AlertPath(TRUE, "DIGEST")
       IN  engine' = [engine EXCEPT
                         !.digests = @ + 1,
                         !.alerts = emitAlert(@, path),
                         !.alert_state = path[Len(path)]]
    /\ UNCHANGED <<paper_positions, signals>>
    /\ UNCHANGED <<rankVars, indVars, dbVars, concVars, apiVars, fnVars, schedVars>>

EngineNext == EngineRun \/ WeeklyDigest

SpecEngine == EngineInit /\ [][EngineNext]_vars

\* the last evaluation, where one has been made
LastRun == engine.last[1]

\* the alert machine is QUIET between evaluations
EngineTypeOK ==
    /\ engine.run \in 0..MaxRuns
    /\ engine.alert_state = "QUIET"
    /\ DOMAIN paper_positions \subseteq {EngineSymbol}

\* the shares C26 states for args: the largest whole numbers within the risk
\* budget and within the position cap, and the smaller of the two
C26_Shares(args) ==
    LET risk_per_share == args.entry_price - args.stop_price
        shares_risk == CHOOSE n \in 0..(args.equity_usd * PriceUnit) :
                           /\ n * risk_per_share * 100
                                  <= args.equity_usd * PriceUnit * args.risk_per_trade_pct
                           /\ (n + 1) * risk_per_share * 100
                                  > args.equity_usd * PriceUnit * args.risk_per_trade_pct
        shares_cap == CHOOSE n \in 0..(args.equity_usd * PriceUnit) :
                          /\ n * args.entry_price * 100
                                 <= args.equity_usd * PriceUnit * args.max_position_pct
                          /\ (n + 1) * args.entry_price * 100
                                 > args.equity_usd * PriceUnit * args.max_position_pct
    IN  IF shares_risk < shares_cap THEN shares_risk ELSE shares_cap

\* C26: the risk engine sizes an entry at min(floor(equity * risk_pct /
\* (entry - stop)), floor(equity * max_position_pct / entry)) shares; it
\* rejects exactly when entry - stop <= 0 or the shares are under 1; an
\* accepted size is at least 1, costs at most equity * max_position_pct and
\* risks at most equity * risk_pct; entry 310 with the stop at 272.8 and an
\* equity of 100000 gives 26 shares.
C26_RiskSizing ==
    (engine.last # <<>> /\ LastRun.verdict = "BUY") =>
        LET args == RiskArgs(engine.settings, LastRun.features)
            risk_per_share == args.entry_price - args.stop_price
            result == LastRun.sizing
        IN  /\ result.ok = ~(risk_per_share <= 0 \/ C26_Shares(args) < 1)
            /\ result.ok =>
                  /\ result.shares = C26_Shares(args)
                  /\ result.shares >= 1
                  /\ result.shares * args.entry_price * 100
                         <= args.equity_usd * PriceUnit * args.max_position_pct
                  /\ result.shares * risk_per_share * 100
                         <= args.equity_usd * PriceUnit * args.risk_per_trade_pct
            /\ ~result.ok => /\ LastRun.emitted = "NONE"
                             /\ LastRun.fill = "NONE"
            /\ (/\ args.entry_price = 310 * PriceUnit
                /\ args.stop_price = (2728 * PriceUnit) \div 10
                /\ args.equity_usd = 100000) => result.ok /\ result.shares = 26

\* C26 witness: the documented example has been sized at 26 shares and filled
C26_Witness ==
    /\ engine.last # <<>>
    /\ LastRun.verdict = "BUY"
    /\ LastRun.features.entry_price = 310 * PriceUnit
    /\ LastRun.sizing.ok
    /\ LastRun.sizing.shares = 26
    /\ PositionOf(paper_positions, EngineSymbol).shares = 26

\* the signals a run has inserted for the symbol
SignalsOfRun(run) == {k \in DOMAIN signals : signals[k].created_at = run}

\* C21: the decision engine emits at most one verdict per symbol per run and
\* evaluates in the order SELL, then ADD and TRIM against a held position, then
\* BUY and WATCH for a symbol without a position: a SELL condition that holds
\* for a held position makes the verdict SELL whatever else holds, ADD, TRIM
\* and SELL are verdicts on held positions only, BUY and WATCH on symbols
\* without one, and ADD and TRIM never both come out of one run.
C21_OneVerdictInOrder ==
    /\ \A run \in 1..MaxRuns : Cardinality(SignalsOfRun(run)) <= 1
    /\ engine.last # <<>> =>
          /\ LastRun.verdict \in {"SELL", "ADD", "TRIM", "BUY", "WATCH", "NONE"}
          /\ LastRun.emitted \in {LastRun.verdict, "NONE"}
          /\ (IsLive(LastRun.before) /\ SellCondition(LastRun.features, LastRun.before))
                 => LastRun.verdict = "SELL"
          /\ LastRun.verdict = "SELL"
                 => IsLive(LastRun.before) /\ SellCondition(LastRun.features, LastRun.before)
          /\ LastRun.verdict = "ADD"
                 => /\ IsLive(LastRun.before)
                    /\ AddCondition(engine.settings, LastRun.features, LastRun.before)
          /\ LastRun.verdict = "TRIM"
                 => IsLive(LastRun.before) /\ TrimCondition(LastRun.features, LastRun.before)
          /\ LastRun.verdict \in {"BUY", "WATCH"} => ~IsLive(LastRun.before)

\* C21 witness: a run found a held position for which a SELL condition, the
\* ADD condition and the TRIM condition held together; it sold and the
\* position is closed
C21_Witness ==
    /\ engine.last # <<>>
    /\ IsLive(LastRun.before)
    /\ SellCondition(LastRun.features, LastRun.before)
    /\ AddCondition(engine.settings, LastRun.features, LastRun.before)
    /\ TrimCondition(LastRun.features, LastRun.before)
    /\ LastRun.verdict = "SELL"
    /\ LastRun.emitted = "SELL"
    /\ PositionOf(paper_positions, EngineSymbol).state = "closed"

\* every gate of BUY holds for the last run: regime RISK_ON, sector rank within
\* the top N, trend confirmed and, when AI gating is enabled, a score with an
\* accelerating growth phase and a conviction of at least 75
C22_AllGates ==
    /\ LastRun.features.regime = "RISK_ON"
    /\ LastRun.features.sector_rank <= InflowSectorTopN
    /\ LastRun.features.trend_confirmed
    /\ engine.settings.require_ai_for_buy =>
          /\ LastRun.features.ai # Null
          /\ LastRun.features.ai[1].growth_phase
                 \in {"early_acceleration", "strong_acceleration"}
          /\ LastRun.features.ai[1].conviction >= 75

\* the last run found AI gating enabled and no AI score
C22_ScoreMissing ==
    /\ engine.settings.require_ai_for_buy
    /\ LastRun.features.ai = Null

C23_PositionLifecycle ==
    /\ \A symbol \in DOMAIN paper_positions : Len(paper_positions[symbol]) = 1
    /\ engine.last # <<>> =>
          LET before == LastRun.before
              stored == PositionOf(paper_positions, EngineSymbol)
          IN  CASE LastRun.fill = "BUY" ->
                      /\ before.state \in {"flat", "closed"}
                      /\ stored.state = "open"
                      /\ stored.opened_at = engine.run
                      /\ stored.opened_at > before.opened_at
                      /\ stored.closed_at = Null
                [] LastRun.fill = "ADD" ->
                      before.state = "open" /\ stored.state = "open"
                [] LastRun.fill = "TRIM" ->
                      before.state \in {"open", "trimmed"} /\ stored.state = "trimmed"
                [] LastRun.fill \in {"SELL", "STOP_HIT"} ->
                      before.state \in {"open", "trimmed"} /\ stored.state = "closed"
                [] OTHER -> stored = before

\* the shares of position agree with its state: held means shares, closed
\* means none and a closing time
C24_SharesAgree(position) ==
    /\ position.state \in {"open", "trimmed"} => position.shares > 0
    /\ position.state = "closed" => position.closed_at # Null /\ position.shares = 0

C25_Created(signal_type) == {k \in DOMAIN signals : signals[k].signal_type = signal_type}

\* C25: the alert machine sends exactly one alert for each alert-worthy
\* transition (a BUY, SELL, ADD or TRIM created, the weekly digest) and is back
\* in QUIET within the evaluation; a WATCH sends none, also when it is the
\* verdict of two consecutive runs; the alerts sent never exceed the
\* alert-worthy transitions.
C25_OneAlertPerTransition ==
    /\ engine.alert_state = "QUIET"
    /\ engine.alerts["ALERT_BUY"] = Cardinality(C25_Created("BUY"))
    /\ engine.alerts["ALERT_SELL"] = Cardinality(C25_Created("SELL"))
    /\ engine.alerts["ALERT_ADD"] = Cardinality(C25_Created("ADD"))
    /\ engine.alerts["ALERT_TRIM"] = Cardinality(C25_Created("TRIM"))
    /\ engine.alerts["ALERT_DIGEST"] = engine.digests
    /\ \A k \in DOMAIN signals :
           (signals[k].sent_at # Null) = (signals[k].signal_type # "WATCH")
    /\ \A k \in DOMAIN signals :
           (/\ k > 1
            /\ signals[k].signal_type = "WATCH"
            /\ signals[k - 1].signal_type = "WATCH"
            /\ signals[k].created_at = signals[k - 1].created_at + 1) =>
               signals[k].sent_at = Null /\ signals[k - 1].sent_at = Null
    /\ engine.last # <<>> =>
          /\ LastRun.alert_path[1] = "QUIET"
          /\ LastRun.alert_path[Len(LastRun.alert_path)] = "QUIET"
          /\ Len(LastRun.alert_path) =
                 (IF LastRun.emitted \in {"BUY", "SELL", "ADD", "TRIM"} THEN 3 ELSE 1)

\* C25 witness: WATCH was the verdict of two consecutive runs, which sent no
\* alert, and the BUY of the run after them sent one
C25_Witness ==
    /\ Len(signals) = 3
    /\ signals[1].signal_type = "WATCH" /\ signals[1].created_at = 1
    /\ signals[2].signal_type = "WATCH" /\ signals[2].created_at = 2
    /\ signals[3].signal_type = "BUY" /\ signals[3].sent_at = Some(3)
    /\ engine.alerts["ALERT_BUY"] = 1
    /\ \A state \in AlertStates \ {"ALERT_BUY", "ALERT_DIGEST"} : engine.alerts[state] = 0
    /\ engine.alert_state = "QUIET"

====
